---- MODULE Spec2Model ----
(***************************************************************************)
(* Model of the download engine of douyin-downloader:                      *)
(*   - AdaptiveRateLimiter  (apiproxy/douyin/core/rate_limiter.py)         *)
(*   - PersistentQueue      (apiproxy/douyin/core/queue_manager.py)        *)
(*   - RetryStrategy        (apiproxy/douyin/strategies/retry_strategy.py) *)
(*   - DownloadOrchestrator (apiproxy/douyin/core/orchestrator.py)         *)
(*                                                                         *)
(* Time is counted in ticks of 0.1 second, the smallest duration the code  *)
(* uses (the burst window and the default wait of the rate limiter), so    *)
(* every window of the code is a whole number of ticks.                    *)
(***************************************************************************)
EXTENDS Integers, Sequences, FiniteSets, TLC

VARIABLES
    \* ---- AdaptiveRateLimiter
    config,          \* self.config (RateLimitConfig), fixed at construction
    budget,          \* how many calls and clock advances the behaviour may hold
    clock,           \* real time, time.time(), in ticks
    ticks,           \* how many times the clock has advanced
    requests,        \* self.requests: deque of permit timestamps
    failures,        \* self.failures: deque of failure timestamps
    current_max,     \* current_max_per_second / _per_minute / _per_hour
    cooldown_until,  \* self.cooldown_until
    acq,             \* the acquire() call that holds self.lock, if any
    blocked_requests,\* stats['blocked_requests']
    cooldown_set,    \* history: the last assignment of a cooldown by record_failure / set_cooldown
    burst_seen,      \* history: a record_failure call saw 5 failures in 10 s since the last acquire() call
    permits,         \* stats['total_requests']
    cooldowns,       \* how many times set_cooldown was called
    lastGrant,       \* history: the permit the last step returned, if it returned one
    \* ---- PersistentQueue
    pool,            \* the tasks the callers construct: task_id -> priority and creation time
    store,           \* the tasks table: task_id -> row, or NoRow
    queue,           \* self.queue (asyncio.Queue(maxsize=max_size)): task ids, oldest first
    mem,             \* the DownloadTask objects of the process: task_id -> fields
    lock,            \* self._lock: its holder, or "free"
    ppc,             \* where each caller of add_task / requeue_task is
    cpc,             \* where each caller of get_task is
    restarts,        \* how many times the process was restarted
    cleanups,        \* how many times cleanup_old_tasks was called
    purged,          \* history: ids whose row cleanup_old_tasks deleted, not written since
    boot,            \* history: the last startup recovery
    accepted,        \* history: ids for which an add_task call has returned True
    pqEvent,         \* history: what the last step returned to its caller
    \* ---- DownloadOrchestrator
    otask,           \* the DownloadTask objects add_task created: unit -> fields
    total_tasks,     \* stats['total_tasks']
    pending_queue,   \* self.pending_queue (asyncio.Queue()): units, oldest first
    priority_tasks,  \* self.priority_tasks
    active_tasks,    \* self.active_tasks: the ids it holds
    completed_tasks, \* self.completed_tasks
    failed_tasks,    \* self.failed_tasks
    workers,         \* where each worker coroutine is
    worker_list,     \* self.workers: the coroutines start() appended
    stopper,         \* the stop() call that is waiting in asyncio.gather
    running,         \* self.running
    orEvent,         \* history: what the last step of the orchestrator did
    orPlan,          \* what the callers of the orchestrator will do at most
    \* ---- RetryStrategy, called on its own
    rs,              \* one RetryStrategy object and the download call on it
    \* ---- AdaptiveRateLimiter, its self-tuning on its own
    tune,            \* a limiter seen at its permits and failures only
    \* ---- DownloadOrchestrator, its strategies and one _execute_task
    chain            \* the registered strategies and the calls made on them

rlVars == <<config, budget, clock, ticks, requests, failures, current_max, cooldown_until,
            acq, blocked_requests, cooldown_set, burst_seen, permits, cooldowns, lastGrant>>

pqVars == <<pool, store, queue, mem, lock, ppc, cpc, restarts, cleanups, purged, boot,
            accepted, pqEvent>>

orVars == <<otask, total_tasks, pending_queue, priority_tasks, active_tasks,
            completed_tasks, failed_tasks, workers, worker_list, stopper,
            running, orEvent, orPlan>>

rsVars == <<rs>>

tuVars == <<tune>>

chVars == <<chain>>

vars == <<rlVars, pqVars, orVars, rsVars, tuVars, chVars>>

--------------------------------------------------------------------------
(* Generic helpers *)

Max(a, b) == IF a >= b THEN a ELSE b
Min(a, b) == IF a <= b THEN a ELSE b

SeqMin(s) == CHOOSE x \in { s[i] : i \in 1..Len(s) } :
                 \A j \in 1..Len(s) : x <= s[j]

SetMin(S) == CHOOSE x \in S : \A y \in S : x <= y

--------------------------------------------------------------------------
(* AdaptiveRateLimiter: constants of the code, in ticks of 0.1 s *)

SecondWindow == 10          \* now - r < 1
MinuteWindow == 600         \* now - r < 60
HourWindow == 36000         \* now - r < 3600
BurstWindow == 1            \* now - r < 0.1
DefaultWait == 1            \* 0.1, the wait when no second/minute limit is hit
RequestRetention == 36000   \* requests older than 3600 s are dropped
FailureRetention == 6000    \* failures older than 600 s are dropped
FailureWindow == 100        \* _handle_failure: now - f < 10
FailureThreshold == 5       \* _handle_failure: len(recent_failures) >= 5
AdjustMinSample == 10       \* _adjust_rate: len(recent_requests) > 10
IncreaseMinSample == 20     \* _adjust_rate: len(recent_requests) > 20
MinPerSecond == 1           \* _decrease_rate floors
MinPerMinute == 10
MinPerHour == 100

(* Bounds of the model.  The tight configurations are explored with the
   first budget, the wide ones (which need 11 permits before the limiter
   tunes itself) with the second. *)
MaxTicks == 2               \* clock advances per behaviour
MaxPermits == 4             \* permits granted per behaviour
MaxFailures == 5            \* record_failure calls per behaviour
MaxCooldowns == 1           \* set_cooldown calls per behaviour
WideTicks == 1
WidePermits == 12
WideFailures == 4
WideCooldowns == 0

\* The steps by which the clock advances: 0.1 s, 1 s, 60 s, 1 h.
Deltas == {1, 10, 600, 36000}

\* Arguments of set_cooldown(seconds).
CooldownArgs == {1, 60}

Strategies == {"fixed", "adaptive", "burst"}

\* RateLimitConfig values the limiter is constructed with: tight ones whose
\* three horizons all bind within a few permits, and a wide one that lets a
\* sample of more than 10 permits build up within a second.
TightLimits ==
    { [max_per_second |-> 2, max_per_minute |-> 3, max_per_hour |-> 3,
       burst_size |-> 1, cooldown_time |-> 1],
      [max_per_second |-> 2, max_per_minute |-> 2, max_per_hour |-> 2,
       burst_size |-> 1, cooldown_time |-> 1] }
WideLimits == [max_per_second |-> 11, max_per_minute |-> 11, max_per_hour |-> 11,
               burst_size |-> 5, cooldown_time |-> 60]

WithStrategy(l, s) ==
    [max_per_second |-> l.max_per_second, max_per_minute |-> l.max_per_minute,
     max_per_hour |-> l.max_per_hour, burst_size |-> l.burst_size,
     cooldown_time |-> l.cooldown_time, strategy |-> s]

TightBudget == [ticks |-> MaxTicks, permits |-> MaxPermits,
                failures |-> MaxFailures, cooldowns |-> MaxCooldowns]
WideBudget == [ticks |-> WideTicks, permits |-> WidePermits,
               failures |-> WideFailures, cooldowns |-> WideCooldowns]

Scenarios ==
    { <<WithStrategy(l, s), TightBudget>> : l \in TightLimits, s \in Strategies }
    \cup { <<WithStrategy(WideLimits, "adaptive"), WideBudget>> }

CooldownTicks == config.cooldown_time * SecondWindow

--------------------------------------------------------------------------
(* AdaptiveRateLimiter: pure parts *)

\* [r for r in seq if now - r < w]
Recent(seq, now, w) == SelectSeq(seq, LAMBDA r : now - r < w)

\* _can_proceed with the per-second test written > instead of >=
can_proceed_off_by_one(reqs, cur, cfg, now) ==
    IF Len(Recent(reqs, now, SecondWindow)) > cur.per_second THEN FALSE
    ELSE IF Len(Recent(reqs, now, MinuteWindow)) >= cur.per_minute THEN FALSE
    ELSE IF Len(Recent(reqs, now, HourWindow)) >= cur.per_hour THEN FALSE
    ELSE TRUE

\* _can_proceed(now)
can_proceed(reqs, cur, cfg, now) ==
    IF Len(Recent(reqs, now, SecondWindow)) >= cur.per_second THEN FALSE
    ELSE IF Len(Recent(reqs, now, MinuteWindow)) >= cur.per_minute THEN FALSE
    ELSE IF Len(Recent(reqs, now, HourWindow)) >= cur.per_hour THEN FALSE
    ELSE IF cfg.strategy = "burst"
            /\ Len(Recent(reqs, now, BurstWindow)) >= cfg.burst_size THEN FALSE
    ELSE TRUE

\* _calculate_wait_time(now) returning 0 when neither the per-second nor
\* the per-minute ceiling is reached
calculate_wait_time_or_zero(reqs, cur, now) ==
    IF Len(Recent(reqs, now, SecondWindow)) >= cur.per_second
       \/ Len(Recent(reqs, now, MinuteWindow)) >= cur.per_minute
    THEN 1 ELSE 0

\* _calculate_wait_time(now)
calculate_wait_time(reqs, cur, now) ==
    LET recent_second == Recent(reqs, now, SecondWindow)
        recent_minute == Recent(reqs, now, MinuteWindow)
        wait_times ==
            (IF Len(recent_second) >= cur.per_second /\ Len(recent_second) > 0
                THEN {SecondWindow - (now - SeqMin(recent_second))} ELSE {})
            \cup
            (IF Len(recent_minute) >= cur.per_minute /\ Len(recent_minute) > 0
                THEN {MinuteWindow - (now - SeqMin(recent_minute))} ELSE {})
    IN  IF wait_times # {} THEN SetMin(wait_times) ELSE DefaultWait

\* while seq and now - seq[0] > keep: seq.popleft()
RECURSIVE DropOld(_, _, _)
DropOld(seq, now, keep) ==
    IF seq # << >> /\ now - Head(seq) > keep
        THEN DropOld(Tail(seq), now, keep)
        ELSE seq

\* int(c * 0.7) in IEEE double arithmetic: the product falls just short of
\* the exact value for these c (e.g. 90 * 0.7 = 62.99999999999999).
ShortOf07 == {90, 170, 180, 330, 340, 350, 360, 650, 660, 670, 680, 690,
              700, 710, 720, 730}
Int07(c) == IF c \in ShortOf07 THEN (7 * c) \div 10 - 1 ELSE (7 * c) \div 10

\* c * 1.2 rounded up, not truncated
Int12_rounded_up(c) == (12 * c + 9) \div 10

\* int(c * 1.2): exact for every c the model reaches
Int12(c) == (12 * c) \div 10

\* _decrease_rate()
decrease_rate(cur) ==
    [per_second |-> Max(MinPerSecond, Int07(cur.per_second)),
     per_minute |-> Max(MinPerMinute, Int07(cur.per_minute)),
     per_hour   |-> Max(MinPerHour, Int07(cur.per_hour))]

\* _increase_rate() without the cap at the configuration
increase_rate_uncapped(cur, cfg) ==
    [per_second |-> Int12(cur.per_second),
     per_minute |-> Int12(cur.per_minute),
     per_hour   |-> Int12(cur.per_hour)]

\* _increase_rate()
increase_rate(cur, cfg) ==
    [per_second |-> Min(cfg.max_per_second, Int12(cur.per_second)),
     per_minute |-> Min(cfg.max_per_minute, Int12(cur.per_minute)),
     per_hour   |-> Min(cfg.max_per_hour, Int12(cur.per_hour))]

\* _adjust_rate(): failure_rate = len(recent_failures) / len(recent_requests);
\* failure_rate > 0.3 and failure_rate < 0.05 are compared without division.
adjust_rate(reqs, fails, cur, cfg, now) ==
    LET nf == Len(Recent(fails, now, MinuteWindow))
        nr == Len(Recent(reqs, now, MinuteWindow))
    IN  IF nr > AdjustMinSample
            THEN IF 10 * nf > 3 * nr THEN decrease_rate(cur)
                 ELSE IF 100 * nf < 5 * nr /\ nr > IncreaseMinSample
                     THEN increase_rate(cur, cfg)
                     ELSE cur
            ELSE cur

\* _handle_failure() asking for more than 5 failures
failure_burst_above(fails, now) ==
    Len(Recent(fails, now, FailureWindow)) > FailureThreshold

\* _handle_failure(): whether the cooldown is triggered
failure_burst(fails, now) ==
    Len(Recent(fails, now, FailureWindow)) >= FailureThreshold

\* remaining computed with its operands swapped
cooldown_remaining_swapped(cd, now) == now - cd

\* acquire(): remaining = self.cooldown_until - now
cooldown_remaining(cd, now) == cd - now

--------------------------------------------------------------------------
(* AdaptiveRateLimiter: state *)

Idle == [pc |-> "idle", now |-> 0, wake |-> 0, called |-> 0, saw |-> 0,
         after_burst |-> FALSE, set_at |-> 0, set_by |-> "none"]

NoGrant == [n |-> 0]

InitLimiterWith(sc) ==
    /\ config = sc[1]
    /\ budget = sc[2]
    /\ clock = 0
    /\ ticks = 0
    /\ requests = << >>
    /\ failures = << >>
    /\ current_max = [per_second |-> config.max_per_second,
                      per_minute |-> config.max_per_minute,
                      per_hour   |-> config.max_per_hour]
    /\ cooldown_until = 0
    /\ acq = Idle
    /\ blocked_requests = 0
    /\ cooldown_set = [by |-> "none", at |-> 0, until |-> 0]
    /\ burst_seen = FALSE
    /\ permits = 0
    /\ cooldowns = 0
    /\ lastGrant = NoGrant

InitLimiter == \E sc \in Scenarios : InitLimiterWith(sc)

\* acquire(), from "清理过期记录" to its return or to its next sleep, for the
\* call `a` with local variable now = nowv: the stretch runs without
\* suspension, so it is one step.
RateCheck(a, nowv) ==
    LET reqs1 == DropOld(requests, nowv, RequestRetention)
        fails1 == DropOld(failures, nowv, FailureRetention)
    IN  IF can_proceed(reqs1, current_max, config, nowv)
        THEN LET reqs2 == Append(reqs1, nowv)
                 cur2 == IF config.strategy = "adaptive"
                            THEN adjust_rate(reqs2, fails1, current_max, config, clock)
                            ELSE current_max
             IN /\ requests' = reqs2
                /\ failures' = fails1
                /\ current_max' = cur2
                /\ acq' = Idle
                /\ blocked_requests' = blocked_requests
                /\ permits' = permits + 1
                /\ lastGrant' =
                      [n |-> permits + 1,
                       at |-> clock,
                       stamp |-> nowv,
                       called |-> a.called,
                       saw |-> a.saw,
                       set_at |-> a.set_at,
                       set_by |-> a.set_by,
                       after_burst |-> a.after_burst,
                       in_force |-> cooldown_set.until,
                       in_second |-> Len(Recent(reqs2, clock, SecondWindow)),
                       in_minute |-> Len(Recent(reqs2, clock, MinuteWindow)),
                       in_hour |-> Len(Recent(reqs2, clock, HourWindow)),
                       checked |-> current_max,
                       returned |-> cur2]
        ELSE LET wait_time == calculate_wait_time(reqs1, current_max, nowv)
             IN /\ requests' = reqs1
                /\ failures' = fails1
                /\ UNCHANGED <<current_max, permits>>
                /\ lastGrant' = NoGrant
                /\ IF wait_time > 0
                      THEN /\ acq' = [a EXCEPT !.pc = "ratewait",
                                               !.wake = clock + wait_time]
                           /\ blocked_requests' = blocked_requests
                      ELSE /\ acq' = Idle
                           /\ blocked_requests' = blocked_requests + 1

\* acquire() is called and takes self.lock (free: no other call is in progress)
AcquireEnter ==
    /\ acq.pc = "idle"
    /\ permits < budget.permits
    /\ burst_seen' = FALSE
    /\ UNCHANGED <<config, budget, clock, ticks, cooldown_until, cooldown_set, cooldowns>>
    /\ LET a == [Idle EXCEPT !.now = clock, !.called = clock,
                             !.after_burst = burst_seen]
       IN IF cooldown_until > clock
          THEN /\ acq' = [a EXCEPT !.pc = "cooldown",
                                   !.wake = clock + cooldown_remaining(cooldown_until, clock),
                                   !.saw = cooldown_until,
                                   !.set_at = cooldown_set.at,
                                   !.set_by = cooldown_set.by]
               /\ UNCHANGED <<requests, failures, current_max, blocked_requests, permits>>
               /\ lastGrant' = NoGrant
          ELSE RateCheck(a, clock)
    /\ UNCHANGED <<pqVars, orVars, rsVars, tuVars, chVars>>

\* asyncio.sleep(remaining) returns; self.cooldown_until = 0; now is not re-read
AcquireWakeCooldown ==
    /\ acq.pc = "cooldown"
    /\ clock >= acq.wake
    /\ cooldown_until' = 0
    /\ UNCHANGED <<config, budget, clock, ticks, cooldown_set, burst_seen, cooldowns>>
    /\ RateCheck(acq, acq.now)
    /\ UNCHANGED <<pqVars, orVars, rsVars, tuVars, chVars>>

\* asyncio.sleep(wait_time) returns; now = time.time()
AcquireWakeRate ==
    /\ acq.pc = "ratewait"
    /\ clock >= acq.wake
    /\ UNCHANGED <<config, budget, clock, ticks, cooldown_until, cooldown_set, burst_seen, cooldowns>>
    /\ RateCheck(acq, clock)
    /\ UNCHANGED <<pqVars, orVars, rsVars, tuVars, chVars>>

\* record_failure(): synchronous, callable while an acquire() sleeps
RecordFailure ==
    /\ Len(failures) < budget.failures
    /\ LET fails1 == Append(failures, clock)
           burst == failure_burst(fails1, clock)
       IN /\ failures' = fails1
          /\ burst_seen' = (burst_seen \/ burst)
          /\ IF config.strategy = "adaptive" /\ burst
                THEN /\ cooldown_until' = clock + CooldownTicks
                     /\ current_max' = decrease_rate(current_max)
                     /\ cooldown_set' = [by |-> "failure", at |-> clock,
                                         until |-> clock + CooldownTicks]
                ELSE UNCHANGED <<cooldown_until, current_max, cooldown_set>>
    /\ lastGrant' = NoGrant
    /\ UNCHANGED <<config, budget, clock, ticks, requests, acq, blocked_requests, permits, cooldowns>>
    /\ UNCHANGED <<pqVars, orVars, rsVars, tuVars, chVars>>

\* set_cooldown(seconds)
SetCooldown ==
    /\ \E s \in CooldownArgs :
          /\ cooldown_until' = clock + s * SecondWindow
          /\ cooldown_set' = [by |-> "manual", at |-> clock,
                              until |-> clock + s * SecondWindow]
    /\ cooldowns < budget.cooldowns
    /\ cooldowns' = cooldowns + 1
    /\ lastGrant' = NoGrant
    /\ UNCHANGED <<config, budget, clock, ticks, requests, failures, current_max, acq,
                   blocked_requests, burst_seen, permits>>
    /\ UNCHANGED <<pqVars, orVars, rsVars, tuVars, chVars>>

\* real time passes
Tick ==
    /\ ticks < budget.ticks
    /\ \E d \in Deltas : clock' = clock + d
    /\ ticks' = ticks + 1
    /\ lastGrant' = NoGrant
    /\ UNCHANGED <<config, budget, requests, failures, current_max, cooldown_until, acq,
                   blocked_requests, cooldown_set, burst_seen, permits, cooldowns>>
    /\ UNCHANGED <<pqVars, orVars, rsVars, tuVars, chVars>>

NextLimiter ==
    \/ AcquireEnter
    \/ AcquireWakeCooldown
    \/ AcquireWakeRate
    \/ RecordFailure
    \/ SetCooldown
    \/ Tick

--------------------------------------------------------------------------
(* PersistentQueue: data *)

MaxSize == 2        \* max_size of the queue under test
RetryCap == 1       \* requeue_task is called on a task at most this often
MaxRestarts == 1
MaxCleanups == 1

TaskIds == {"t1", "t2"}
Producers == {"p1"}
Consumers == {"c1", "c2"}

Statuses == {"pending", "processing", "completed", "failed", "retrying"}
Terminal == {"completed", "failed"}

\* The tasks the callers construct differ in priority and creation time:
\* in the first pool the later task has the higher priority, in the second
\* the two have the same priority and "t2" is the older one.
PriorityPool ==
    [id \in TaskIds |-> IF id = "t1" THEN [priority |-> 0, created_at |-> 1]
                                     ELSE [priority |-> 2, created_at |-> 2]]

TiePool ==
    [id \in TaskIds |-> IF id = "t1" THEN [priority |-> 1, created_at |-> 2]
                                     ELSE [priority |-> 1, created_at |-> 1]]

TaskPools == {PriorityPool, TiePool}

\* DownloadTask(task_id, ..., priority): retry_count 0, status PENDING
DownloadTask(id) ==
    [task_id |-> id, priority |-> pool[id].priority, retry_count |-> 0,
     status |-> "pending", created_at |-> pool[id].created_at]

NoRow == [status |-> "none"]

HasRow(st, id) == st[id].status # "none"

\* INSERT OR REPLACE INTO tasks (...) VALUES (task fields); commit
insert_or_replace_lost(st, task) == st

insert_or_replace(st, task) ==
    [st EXCEPT ![task.task_id] =
        [priority |-> task.priority, status |-> task.status,
         retry_count |-> task.retry_count, created_at |-> task.created_at]]

\* UPDATE tasks SET status = ? WHERE task_id = ?; commit
update_status_skipped(st, id, status) == st

update_status(st, id, status) ==
    IF HasRow(st, id) THEN [st EXCEPT ![id].status = status] ELSE st

\* UPDATE tasks SET status = 'pending' WHERE status = 'processing'
reset_processing_skipped(st) == st

\* the UPDATE of _restore_tasks reaching the retrying rows too
reset_unfinished(st) ==
    [id \in TaskIds |->
        IF st[id].status \in {"processing", "retrying"}
        THEN [st[id] EXCEPT !.status = "pending"] ELSE st[id]]

reset_processing(st) ==
    [id \in TaskIds |->
        IF st[id].status = "processing"
        THEN [st[id] EXCEPT !.status = "pending"] ELSE st[id]]

\* WHERE status IN ('pending', 'retrying')
restorable_pending_only(st) == { id \in TaskIds : st[id].status = "pending" }

Restorable(st) == { id \in TaskIds : st[id].status \in {"pending", "retrying"} }

\* ORDER BY priority DESC, created_at ASC
RowBefore(a, b) ==
    \/ a.priority > b.priority
    \/ a.priority = b.priority /\ a.created_at <= b.created_at

\* The orders in which the SELECT may return the rows: every order
\* that agrees with the ORDER BY clause.
SelectOrders(st) ==
    LET ids == Restorable(st)
        n == Cardinality(ids)
    IN  { s \in [1..n -> ids] :
            /\ \A i, j \in 1..n : i < j => s[i] # s[j] /\ RowBefore(st[s[i]], st[s[j]]) }

\* _row_to_task: the status is not read back, the object starts Pending
row_to_task(id, row) ==
    [task_id |-> id, priority |-> row.priority, retry_count |-> row.retry_count,
     status |-> "pending", created_at |-> row.created_at]

\* put_nowait row by row until asyncio.QueueFull
Loaded(order) == SubSeq(order, 1, Min(Len(order), MaxSize))

Range(s) == { s[i] : i \in 1..Len(s) }

\* DELETE FROM tasks WHERE status IN ('completed', 'failed') AND updated_at < cutoff,
\* called when every such row is older than the cutoff
Expired(st) == { id \in TaskIds : st[id].status \in Terminal }

\* add_task when the INSERT raises: the except branch is entered from
\* before queue.put, so the queue is as it was
queue_after_store_error_put(q, task) == Append(q, task.task_id)

queue_after_store_error(q, task) == q

IdleCaller == [st |-> "idle", task |-> "none"]
NoEvent == [kind |-> "none"]
NoBoot == [intact |-> FALSE]

InitQueueWith(tasks) ==
    /\ pool = tasks
    /\ store = [id \in TaskIds |-> NoRow]
    /\ queue = <<>>
    /\ mem = [id \in TaskIds |-> DownloadTask(id)]
    /\ lock = "free"
    /\ ppc = [p \in Producers |-> IdleCaller]
    /\ cpc = [c \in Consumers |-> IdleCaller]
    /\ restarts = 0
    /\ cleanups = 0
    /\ purged = {}
    /\ boot = NoBoot
    /\ accepted = {}
    /\ pqEvent = NoEvent

InitQueue == \E tasks \in TaskPools : InitQueueWith(tasks)

--------------------------------------------------------------------------
(* PersistentQueue: operations *)

\* add_task once it holds self._lock: INSERT OR REPLACE and commit, then
\* queue.put(task), which waits, the lock still held, while the queue is
\* full.  An exception of the store makes the call return False.
AddLocked(p, task, ok) ==
    IF ~ok
    THEN /\ queue' = queue_after_store_error(queue, task)
         /\ pqEvent' = [kind |-> "add", returned |-> FALSE, before |-> queue]
         /\ ppc' = [ppc EXCEPT ![p] = IdleCaller]
         /\ lock' = "free"
         /\ UNCHANGED <<store, purged, boot, accepted>>
    ELSE /\ store' = insert_or_replace(store, task)
         /\ purged' = { id \in purged : ~HasRow(store', id) }
         /\ boot' = NoBoot
         /\ IF Len(queue) < MaxSize
            THEN /\ queue' = Append(queue, task.task_id)
                 /\ lock' = "free"
                 /\ ppc' = [ppc EXCEPT ![p] = IdleCaller]
                 /\ accepted' = accepted \cup {task.task_id}
                 /\ pqEvent' = NoEvent
            ELSE /\ queue' = queue
                 /\ accepted' = accepted
                 /\ lock' = p
                 /\ ppc' = [ppc EXCEPT ![p] = [st |-> "put", task |-> task.task_id]]
                 /\ pqEvent' = NoEvent

AddTask(p, id) ==
    /\ ppc[p].st = "idle"
    /\ lock = "free"
    /\ \E ok \in BOOLEAN : AddLocked(p, mem[id], ok)
    /\ UNCHANGED <<pool, mem, cpc, restarts, cleanups>>
    /\ UNCHANGED <<rlVars, orVars, rsVars, tuVars, chVars>>

\* queue.put(task) of a waiting add_task goes through once there is room
PutUnblock(p) ==
    /\ ppc[p].st = "put"
    /\ Len(queue) < MaxSize
    /\ queue' = Append(queue, ppc[p].task)
    /\ lock' = "free"
    /\ ppc' = [ppc EXCEPT ![p] = IdleCaller]
    /\ accepted' = accepted \cup {ppc[p].task}
    /\ pqEvent' = NoEvent
    /\ UNCHANGED <<pool, store, mem, cpc, restarts, cleanups, purged, boot>>
    /\ UNCHANGED <<rlVars, orVars, rsVars, tuVars, chVars>>

\* requeue_task: the task object is changed first, then add_task is awaited
RequeueTask(p, id) ==
    /\ ppc[p].st = "idle"
    /\ mem[id].retry_count < RetryCap
    /\ mem' = [mem EXCEPT ![id].retry_count = @ + 1, ![id].status = "retrying"]
    /\ lock = "free"
    /\ \E ok \in BOOLEAN : AddLocked(p, mem'[id], ok)
    /\ UNCHANGED <<pool, cpc, restarts, cleanups>>
    /\ UNCHANGED <<rlVars, orVars, rsVars, tuVars, chVars>>

\* get_task, first half: queue.get() hands over the oldest entry
GetPop(c) ==
    /\ cpc[c].st = "idle"
    /\ queue # <<>>
    /\ queue' = Tail(queue)
    /\ cpc' = [cpc EXCEPT ![c] = [st |-> "got", task |-> Head(queue)]]
    /\ pqEvent' = NoEvent
    /\ boot' = IF boot.intact
               THEN [boot EXCEPT !.delivered = Append(@, Head(queue))]
               ELSE boot
    /\ UNCHANGED <<pool, store, mem, lock, ppc, restarts, cleanups, purged, accepted>>
    /\ UNCHANGED <<rlVars, orVars, rsVars, tuVars, chVars>>

\* get_task, second half: update_task_status(task_id, PROCESSING) under
\* self._lock, then the task is returned
GetFinish(c) ==
    /\ cpc[c].st = "got"
    /\ lock = "free"
    /\ store' = update_status(store, cpc[c].task, "processing")
    /\ cpc' = [cpc EXCEPT ![c] = IdleCaller]
    /\ pqEvent' = [kind |-> "get", task |-> cpc[c].task,
                   stored |-> store'[cpc[c].task].status]
    /\ UNCHANGED <<pool, queue, mem, lock, ppc, restarts, cleanups, purged, boot, accepted>>
    /\ UNCHANGED <<rlVars, orVars, rsVars, tuVars, chVars>>

\* get_task on a queue that stays empty for the timeout: returns None
GetTimeout(c) ==
    /\ cpc[c].st = "idle"
    /\ queue = <<>>
    /\ pqEvent' = NoEvent
    /\ UNCHANGED <<pool, store, queue, mem, lock, ppc, cpc, restarts, cleanups, purged, boot, accepted>>
    /\ UNCHANGED <<rlVars, orVars, rsVars, tuVars, chVars>>

\* A worker that repeats get_task and update_task_status(COMPLETED).
\* get_task, second half, in such a worker: it keeps the task it is handed
WorkerGetFinish(c) ==
    /\ cpc[c].st = "got"
    /\ lock = "free"
    /\ store' = update_status(store, cpc[c].task, "processing")
    /\ cpc' = [cpc EXCEPT ![c].st = "work"]
    /\ pqEvent' = [kind |-> "get", task |-> cpc[c].task,
                   stored |-> store'[cpc[c].task].status]
    /\ UNCHANGED <<pool, queue, mem, lock, ppc, restarts, cleanups, purged, boot, accepted>>
    /\ UNCHANGED <<rlVars, orVars, rsVars, tuVars, chVars>>

\* the worker has done its task: update_task_status(task_id, COMPLETED)
\* under self._lock, then it goes back to get_task
WorkerComplete(c) ==
    /\ cpc[c].st = "work"
    /\ lock = "free"
    /\ store' = update_status(store, cpc[c].task, "completed")
    /\ cpc' = [cpc EXCEPT ![c] = IdleCaller]
    /\ pqEvent' = NoEvent
    /\ UNCHANGED <<pool, queue, mem, lock, ppc, restarts, cleanups, purged, boot, accepted>>
    /\ UNCHANGED <<rlVars, orVars, rsVars, tuVars, chVars>>

\* One producer calling add_task and workers repeating get_task and
\* update_task_status(COMPLETED).
NextBackpressure ==
    \/ \E p \in Producers, id \in TaskIds : AddTask(p, id)
    \/ \E p \in Producers : PutUnblock(p)
    \/ \E c \in Consumers : GetPop(c)
    \/ \E c \in Consumers : WorkerGetFinish(c)
    \/ \E c \in Consumers : WorkerComplete(c)
    \/ \E c \in Consumers : GetTimeout(c)

\* update_task_status called from outside
UpdateTaskStatus(id, status) ==
    /\ lock = "free"
    /\ store' = update_status(store, id, status)
    /\ pqEvent' = NoEvent
    /\ UNCHANGED <<pool, queue, mem, lock, ppc, cpc, restarts, cleanups, purged, boot, accepted>>
    /\ UNCHANGED <<rlVars, orVars, rsVars, tuVars, chVars>>

\* cleanup_old_tasks: synchronous, does not take self._lock
CleanupOldTasks ==
    /\ cleanups < MaxCleanups
    /\ cleanups' = cleanups + 1
    /\ store' = [id \in TaskIds |-> IF id \in Expired(store) THEN NoRow ELSE store[id]]
    /\ purged' = purged \cup Expired(store)
    /\ pqEvent' = NoEvent
    /\ UNCHANGED <<pool, queue, mem, lock, ppc, cpc, restarts, boot, accepted>>
    /\ UNCHANGED <<rlVars, orVars, rsVars, tuVars, chVars>>

\* The process dies and is started again: __init__ builds an empty queue
\* and a free lock, and _restore_tasks reloads the queue from the store.
Restart ==
    /\ restarts < MaxRestarts
    /\ restarts' = restarts + 1
    /\ LET st1 == reset_processing(store)
       IN  \E order \in SelectOrders(st1) :
              /\ store' = st1
              /\ queue' = Loaded(order)
              /\ mem' = [id \in TaskIds |->
                            IF id \in Range(Loaded(order))
                            THEN row_to_task(id, st1[id]) ELSE DownloadTask(id)]
              /\ boot' = [intact |-> TRUE,
                          before |-> [id \in TaskIds |-> store[id].status],
                          after |-> [id \in TaskIds |-> st1[id].status],
                          accepted |-> accepted,
                          loaded |-> Loaded(order), delivered |-> <<>>]
    /\ lock' = "free"
    /\ ppc' = [p \in Producers |-> IdleCaller]
    /\ cpc' = [c \in Consumers |-> IdleCaller]
    /\ pqEvent' = NoEvent
    /\ UNCHANGED <<pool, cleanups, purged, accepted>>
    /\ UNCHANGED <<rlVars, orVars, rsVars, tuVars, chVars>>

\* Recovery on a store that earlier runs have left behind, by a
\* PersistentQueue built with any max_size up to MaxSize.
MaxReopens == 2           \* PersistentQueue(db_path, max_size) is built at most this often

Sizes == 1..MaxSize

\* put_nowait row by row until asyncio.QueueFull, on a queue of max_size
load_rows(order, size) == SubSeq(order, 1, Min(Len(order), size))

\* the rows a recovery found restorable and did not load
Skipped(b) ==
    IF b.intact
    THEN { id \in TaskIds : b.after[id] \in {"pending", "retrying"} } \ Range(b.loaded)
    ELSE {}

StoredRow(id, status) ==
    IF status = "none" THEN NoRow
    ELSE [priority |-> pool[id].priority, status |-> status, retry_count |-> 0,
          created_at |-> pool[id].created_at]

\* the store holds any rows, and no PersistentQueue has been built on it
InitStoreLeftBehind ==
    /\ pool \in TaskPools
    /\ \E left \in [TaskIds -> Statuses \cup {"none"}] :
          store = [id \in TaskIds |-> StoredRow(id, left[id])]
    /\ queue = <<>>
    /\ mem = [id \in TaskIds |-> DownloadTask(id)]
    /\ lock = "free"
    /\ ppc = [p \in Producers |-> IdleCaller]
    /\ cpc = [c \in Consumers |-> IdleCaller]
    /\ restarts = 0
    /\ cleanups = 0
    /\ purged = {}
    /\ boot = NoBoot
    /\ accepted = {}
    /\ pqEvent = NoEvent

\* PersistentQueue(db_path, max_size=size): __init__ builds an empty queue
\* of that size and a free lock, and _restore_tasks reloads it
Reopen(size) ==
    /\ restarts < MaxReopens
    /\ restarts' = restarts + 1
    /\ LET st1 == reset_processing(store)
       IN  \E order \in SelectOrders(st1) :
              /\ store' = st1
              /\ queue' = load_rows(order, size)
              /\ mem' = [id \in TaskIds |->
                            IF id \in Range(load_rows(order, size))
                            THEN row_to_task(id, st1[id]) ELSE DownloadTask(id)]
              /\ boot' = [intact |-> TRUE,
                          before |-> [id \in TaskIds |-> store[id].status],
                          after |-> [id \in TaskIds |-> st1[id].status],
                          accepted |-> accepted,
                          loaded |-> load_rows(order, size), delivered |-> <<>>,
                          size |-> size, skipped_earlier |-> Skipped(boot)]
    /\ lock' = "free"
    /\ ppc' = [p \in Producers |-> IdleCaller]
    /\ cpc' = [c \in Consumers |-> IdleCaller]
    /\ pqEvent' = NoEvent
    /\ UNCHANGED <<pool, cleanups, purged, accepted>>
    /\ UNCHANGED <<rlVars, orVars, rsVars, tuVars, chVars>>

NextReopen ==
    \/ \E size \in Sizes : Reopen(size)
    \/ \E c \in Consumers : GetPop(c)
    \/ \E c \in Consumers : GetFinish(c)
    \/ \E c \in Consumers : GetTimeout(c)

NextQueue ==
    \/ \E p \in Producers, id \in TaskIds : AddTask(p, id)
    \/ \E p \in Producers : PutUnblock(p)
    \/ \E p \in Producers, id \in TaskIds : RequeueTask(p, id)
    \/ \E c \in Consumers : GetPop(c)
    \/ \E c \in Consumers : GetFinish(c)
    \/ \E c \in Consumers : GetTimeout(c)
    \/ \E id \in TaskIds, status \in Statuses : UpdateTaskStatus(id, status)
    \/ CleanupOldTasks
    \/ Restart

--------------------------------------------------------------------------
(* DownloadOrchestrator with its default strategy chain, one             *)
(* RetryStrategy around the API strategy.  The wrapped strategy and the  *)
(* rate limiter are seen from the worker: an attempt ends in one of the  *)
(* four ways RetryStrategy tells apart, and acquire() returns after some *)
(* wait.                                                                 *)

TaskMaxRetries == 3       \* DownloadTask.max_retries
StrategyMaxRetries == 3   \* RetryStrategy.max_retries

MaxUnits == 2             \* add_task is called at most this often
OverlapUnits == 1         \* the same, when start() may be called during a stop()
LaneUnits == 3            \* the same, when start() is not called at all
RestartUnits == 3         \* the same, in the runs that stop and start again

\* The callers: either they submit up to MaxUnits units and call start()
\* only when no stop() is in progress, or they submit up to OverlapUnits
\* units and call start() at any time.
Plans ==
    {[units |-> MaxUnits, overlap |-> FALSE, priority_queue |-> TRUE],
     [units |-> OverlapUnits, overlap |-> TRUE, priority_queue |-> TRUE]}

\* The end-to-end run: three units, submitted in this order of priority
EndToEndPriorities == <<3, 1, 0>>

Units == 1..Max(Max(MaxUnits, Max(LaneUnits, RestartUnits)), Len(EndToEndPriorities))
\* The worker coroutines of one start() (max_concurrent of them), and those
\* of a start() that finds the former not yet gone.
Crews == <<{"w1", "w2"}, {"w3", "w4"}>>
Workers == UNION { Crews[c] : c \in DOMAIN Crews }
Priorities == {0, 1, 2}

\* What an attempt of the wrapped strategy can come to: a success, an
\* exception, or a failure result with an error message.  A message is the
\* sequence of its words, in lower case as error_message.lower() gives it;
\* the empty sequence is the empty message.
FailureMessages ==
    {<<>>, <<"timeout">>, <<"404">>, <<"404", "timeout">>, <<"connection", "reset">>,
     <<"410", "deleted">>, <<"disk", "full">>}
Outcomes ==
    {[kind |-> "success", message |-> <<>>], [kind |-> "raise", message |-> <<>>],
     [kind |-> "raise", message |-> <<"timeout">>],
     [kind |-> "raise", message |-> <<"410", "deleted">>]}
        \cup { [kind |-> "failure", message |-> m] : m \in FailureMessages }

Succeeded == [kind |-> "success", message |-> <<>>]

\* the two lists of _should_retry (the phrases in Chinese, which no message
\* of the model contains, are left out)
retryable_errors ==
    {"timeout", "connection", "network", "429", "503", "502", "504",
     "empty response", "temporary"}
non_retryable_errors == {"404", "403", "401", "invalid", "not found", "deleted"}

\* error in error_lower
Contains(m, error) == \E i \in 1..Len(m) : m[i] = error

\* any(error in error_lower for error in retryable_errors / non_retryable_errors)
HasRetryableError(m) == \E error \in retryable_errors : Contains(m, error)
HasNonRetryableError(m) == \E error \in non_retryable_errors : Contains(m, error)

\* a unit: the fields of its DownloadTask, and how often _execute_task has
\* returned for it
NoUnit == [priority |-> 0, retry_count |-> 0, status |-> "absent", executions |-> 0]
NoWorker == [pc |-> "none", task |-> 0, attempt |-> 0, cancel |-> FALSE]
NextWorker == [pc |-> "next", task |-> 0, attempt |-> 0, cancel |-> FALSE]
\* a worker that stop() has cancelled and that has not run since: all it
\* will do is end, whatever it was waiting for
CancelledWorker == [pc |-> "cancelled", task |-> 0, attempt |-> 0, cancel |-> TRUE]
NoOrEvent == [kind |-> "none"]
NoStopper == [waiting |-> FALSE, awaited |-> {}]

\* add_task without the sort of line 138
sort_by_priority_skipped(list, tasks) == list

\* list.sort(key=lambda t: t.priority, reverse=True): stable, highest first
RECURSIVE sort_by_priority(_, _)
sort_by_priority(list, tasks) ==
    IF list = <<>> THEN <<>>
    ELSE LET n == Len(list)
             last == list[n]
             front == sort_by_priority(SubSeq(list, 1, n - 1), tasks)
             k == Cardinality({ i \in 1..Len(front) :
                                  tasks[front[i]].priority >= tasks[last].priority })
         IN  SubSeq(front, 1, k) \o <<last>> \o SubSeq(front, k + 1, Len(front))

\* priority_tasks.pop(0): what is left in the list
pop_first_kept(list) == list

pop_first(list) == Tail(list)

\* increment_retry leaving the count as it is
increment_retry_skipped(task) == task

\* DownloadTask.increment_retry
increment_retry(task) == [task EXCEPT !.retry_count = @ + 1]

\* increment_retry answering True at the ceiling too
can_retry_at_ceiling(task) == task.retry_count <= TaskMaxRetries

can_retry(task) == task.retry_count < TaskMaxRetries

\* _should_retry without its test of the attempt number
should_retry_unbounded(message, attempt) == TRUE

\* _should_retry without its list of errors that are not worth a retry
should_retry_by_default(message, attempt) ==
    IF attempt >= StrategyMaxRetries - 1 THEN FALSE
    ELSE TRUE

\* _should_retry with the two lists looked at in the other order
should_retry_deny_first(message, attempt) ==
    IF attempt >= StrategyMaxRetries - 1 THEN FALSE
    ELSE IF message = <<>> THEN TRUE
    ELSE IF HasNonRetryableError(message) THEN FALSE
    ELSE IF HasRetryableError(message) THEN TRUE
    ELSE TRUE

\* RetryStrategy._should_retry for the result of attempt number `attempt`
should_retry(message, attempt) ==
    IF attempt >= StrategyMaxRetries - 1 THEN FALSE
    ELSE IF message = <<>> THEN TRUE
    ELSE IF HasRetryableError(message) THEN TRUE
    ELSE IF HasNonRetryableError(message) THEN FALSE
    ELSE TRUE

Holding(w) == workers[w].pc \in {"got", "acquire", "run", "backoff"}

InitOrchWith(plan) ==
    /\ orPlan = plan
    /\ otask = [u \in Units |-> NoUnit]
    /\ total_tasks = 0
    /\ pending_queue = <<>>
    /\ priority_tasks = <<>>
    /\ active_tasks = {}
    /\ completed_tasks = <<>>
    /\ failed_tasks = <<>>
    /\ workers = [w \in Workers |-> NoWorker]
    /\ worker_list = {}
    /\ stopper = NoStopper
    /\ running = FALSE
    /\ orEvent = NoOrEvent

InitOrch == \E plan \in Plans : InitOrchWith(plan)

OrchAtRest == InitOrchWith([units |-> MaxUnits, overlap |-> FALSE, priority_queue |-> TRUE])

\* add_task(url, task_type, priority)
OrchAddTask(priority) ==
    /\ total_tasks < orPlan.units
    /\ LET u == total_tasks + 1
           tasks1 == [otask EXCEPT ![u] = [priority |-> priority, retry_count |-> 0,
                                           status |-> "pending", executions |-> 0]]
       IN  /\ otask' = tasks1
           /\ IF orPlan.priority_queue /\ priority > 0
              THEN /\ priority_tasks' = sort_by_priority(Append(priority_tasks, u), tasks1)
                   /\ UNCHANGED pending_queue
              ELSE /\ pending_queue' = Append(pending_queue, u)
                   /\ UNCHANGED priority_tasks
    /\ total_tasks' = total_tasks + 1
    /\ UNCHANGED <<active_tasks, completed_tasks, failed_tasks, workers, worker_list,
                   stopper, running>>
    /\ orEvent' = NoOrEvent
    /\ UNCHANGED <<rlVars, pqVars, rsVars, tuVars, chVars, orPlan>>

\* a crew none of whose coroutines exists
FreeCrew(c) == \A w \in Crews[c] : workers[w].pc = "none"

\* where a worker coroutine that returns is left: its Task object stays in
\* self.workers until stop() clears the list
Ended(w) ==
    IF w \in worker_list THEN [NoWorker EXCEPT !.pc = "ended"] ELSE NoWorker

\* start(); at most two crews exist at a time, and start() is not called
\* while coroutines that are no longer in self.workers are still alive
Start ==
    /\ ~running
    /\ stopper.waiting => orPlan.overlap
    /\ \A w \in Workers \ worker_list : workers[w].pc = "none"
    /\ \E c \in DOMAIN Crews :
          /\ FreeCrew(c)
          /\ \A b \in 1..(c - 1) : ~FreeCrew(b)
          /\ workers' = [w \in Workers |-> IF w \in Crews[c] THEN NextWorker ELSE workers[w]]
          /\ worker_list' = worker_list \cup Crews[c]
    /\ running' = TRUE
    /\ orEvent' = NoOrEvent
    /\ UNCHANGED <<otask, total_tasks, pending_queue, priority_tasks, active_tasks,
                   completed_tasks, failed_tasks, stopper>>
    /\ UNCHANGED <<rlVars, pqVars, rsVars, tuVars, chVars, orPlan>>

\* stop() while running, up to its await: running = False, every worker of
\* the list is cancelled, and gather is given the list as it is now
StopBegin ==
    /\ running
    /\ ~stopper.waiting
    /\ running' = FALSE
    /\ workers' = [w \in Workers |->
                     IF w \in worker_list /\ workers[w].pc # "ended"
                     THEN CancelledWorker ELSE workers[w]]
    /\ stopper' = [waiting |-> TRUE, awaited |-> worker_list]
    /\ orEvent' = NoOrEvent
    /\ UNCHANGED <<otask, total_tasks, pending_queue, priority_tasks, active_tasks,
                   completed_tasks, failed_tasks, worker_list>>
    /\ UNCHANGED <<rlVars, pqVars, rsVars, tuVars, chVars, orPlan>>

\* stop() while not running: it returns at once
StopNotRunning ==
    /\ ~running
    /\ orEvent' = NoOrEvent
    /\ UNCHANGED <<otask, total_tasks, pending_queue, priority_tasks, active_tasks,
                   completed_tasks, failed_tasks, workers, worker_list, stopper, running>>
    /\ UNCHANGED <<rlVars, pqVars, rsVars, tuVars, chVars, orPlan>>

\* CancelledError reaches a worker at the await it is suspended in
WorkerCancelled(w) ==
    /\ workers[w].cancel
    /\ workers[w].pc \notin {"none", "ended"}
    /\ workers' = [workers EXCEPT ![w] = Ended(w)]
    /\ orEvent' = NoOrEvent
    /\ UNCHANGED <<otask, total_tasks, pending_queue, priority_tasks, active_tasks,
                   completed_tasks, failed_tasks, worker_list, stopper, running>>
    /\ UNCHANGED <<rlVars, pqVars, rsVars, tuVars, chVars, orPlan>>

\* while self.running: a worker that finds running false leaves its loop
WorkerExit(w) ==
    /\ workers[w].pc = "next"
    /\ ~workers[w].cancel
    /\ ~running
    /\ workers' = [workers EXCEPT ![w] = Ended(w)]
    /\ orEvent' = NoOrEvent
    /\ UNCHANGED <<otask, total_tasks, pending_queue, priority_tasks, active_tasks,
                   completed_tasks, failed_tasks, worker_list, stopper, running>>
    /\ UNCHANGED <<rlVars, pqVars, rsVars, tuVars, chVars, orPlan>>

\* stop(), after asyncio.gather has returned: workers.clear()
StopEnd ==
    /\ stopper.waiting
    /\ \A w \in stopper.awaited : workers[w].pc = "ended"
    /\ workers' = [w \in Workers |-> IF workers[w].pc = "ended" THEN NoWorker ELSE workers[w]]
    /\ worker_list' = {}
    /\ stopper' = NoStopper
    /\ orEvent' = [kind |-> "stopped"]
    /\ UNCHANGED <<otask, total_tasks, pending_queue, priority_tasks, active_tasks,
                   completed_tasks, failed_tasks, running>>
    /\ UNCHANGED <<rlVars, pqVars, rsVars, tuVars, chVars, orPlan>>

\* a failure that _execute_task does not catch and that ends _worker
after_failure_uncaught(w) == Ended(w)

\* where a failed pass leaves the worker: _execute_task has caught the
\* exception or taken the failure result, _worker has routed the unit, and
\* the while loop goes round
after_failure(w) == NextWorker

\* _worker after _execute_task has returned: the unit leaves active_tasks
\* and goes to completed_tasks, back to pending_queue or to failed_tasks
WorkerFinish(w, tasks1, success, verdict) ==
    LET u == workers[w].task
        tasks0 == [tasks1 EXCEPT ![u].executions = @ + 1]
        tasks2 == [tasks0 EXCEPT ![u] = increment_retry(@)]
    IN  /\ active_tasks' = active_tasks \ {u}
        /\ orEvent' = [kind |-> "finish", task |-> u, verdict |-> verdict,
                       requeued |-> ~success /\ can_retry(tasks2[u]),
                       count_before |-> otask[u].retry_count]
        /\ workers' = [workers EXCEPT ![w] = IF success THEN NextWorker
                                                        ELSE after_failure(w)]
        /\ IF success
           THEN /\ otask' = tasks0
                /\ completed_tasks' = Append(completed_tasks, u)
                /\ UNCHANGED <<pending_queue, failed_tasks>>
           ELSE /\ otask' = tasks2
                /\ IF can_retry(tasks2[u])
                   THEN /\ pending_queue' = Append(pending_queue, u)
                        /\ UNCHANGED <<completed_tasks, failed_tasks>>
                   ELSE /\ failed_tasks' = Append(failed_tasks, u)
                        /\ UNCHANGED <<completed_tasks, pending_queue>>

\* _get_next_task with a unit in priority_tasks: pop(0), and the worker
\* puts it in active_tasks before it can be suspended
WorkerTakePriority(w) ==
    /\ workers[w].pc = "next"
    /\ ~workers[w].cancel
    /\ running
    /\ priority_tasks # <<>>
    /\ priority_tasks' = pop_first(priority_tasks)
    /\ orEvent' = [kind |-> "pull", lane |-> "priority", task |-> Head(priority_tasks),
                   listed |-> priority_tasks]
    /\ active_tasks' = active_tasks \cup {Head(priority_tasks)}
    /\ workers' = [workers EXCEPT ![w] = [NextWorker EXCEPT !.pc = "acquire",
                                                            !.task = Head(priority_tasks)]]
    /\ UNCHANGED <<otask, total_tasks, pending_queue, completed_tasks, failed_tasks, running, worker_list, stopper>>
    /\ UNCHANGED <<rlVars, pqVars, rsVars, tuVars, chVars, orPlan>>

\* _get_next_task with priority_tasks empty: the worker waits on
\* pending_queue.get() for up to 0.1 s
WorkerWait(w) ==
    /\ workers[w].pc = "next"
    /\ ~workers[w].cancel
    /\ running
    /\ priority_tasks = <<>>
    /\ workers' = [workers EXCEPT ![w] = [NextWorker EXCEPT !.pc = "wait"]]
    /\ UNCHANGED <<otask, total_tasks, pending_queue, priority_tasks, active_tasks,
                   completed_tasks, failed_tasks, running, worker_list, stopper>>
    /\ orEvent' = NoOrEvent
    /\ UNCHANGED <<rlVars, pqVars, rsVars, tuVars, chVars, orPlan>>

\* pending_queue.get() hands the waiting worker the oldest unit
WorkerTakePending(w) ==
    /\ workers[w].pc = "wait"
    /\ ~workers[w].cancel
    /\ pending_queue # <<>>
    /\ pending_queue' = Tail(pending_queue)
    /\ orEvent' = [kind |-> "pull", lane |-> "fifo", task |-> Head(pending_queue),
                   listed |-> priority_tasks]
    /\ workers' = [workers EXCEPT ![w] = [NextWorker EXCEPT !.pc = "got",
                                                            !.task = Head(pending_queue)]]
    /\ UNCHANGED <<otask, total_tasks, priority_tasks, active_tasks,
                   completed_tasks, failed_tasks, running, worker_list, stopper>>
    /\ UNCHANGED <<rlVars, pqVars, rsVars, tuVars, chVars, orPlan>>

\* the wait times out: _get_next_task returns None, sleep(0.1), next round
WorkerTimeout(w) ==
    /\ workers[w].pc = "wait"
    /\ ~workers[w].cancel
    /\ pending_queue = <<>>
    /\ workers' = [workers EXCEPT ![w] = NextWorker]
    /\ UNCHANGED <<otask, total_tasks, pending_queue, priority_tasks, active_tasks,
                   completed_tasks, failed_tasks, running, worker_list, stopper>>
    /\ orEvent' = NoOrEvent
    /\ UNCHANGED <<rlVars, pqVars, rsVars, tuVars, chVars, orPlan>>

\* active_tasks[task.task_id] = task for a unit from pending_queue
WorkerMarkActive(w) ==
    /\ workers[w].pc = "got"
    /\ ~workers[w].cancel
    /\ active_tasks' = active_tasks \cup {workers[w].task}
    /\ workers' = [workers EXCEPT ![w].pc = "acquire"]
    /\ UNCHANGED <<otask, total_tasks, pending_queue, priority_tasks,
                   completed_tasks, failed_tasks, running, worker_list, stopper>>
    /\ orEvent' = NoOrEvent
    /\ UNCHANGED <<rlVars, pqVars, rsVars, tuVars, chVars, orPlan>>

\* rate_limiter.acquire() returns; _execute_task asks can_handle, which
\* answers `handles`, and, when it is true, RetryStrategy.download starts
\* its first attempt
WorkerAcquired(w, handles) ==
    /\ workers[w].pc = "acquire"
    /\ ~workers[w].cancel
    /\ IF handles
       THEN /\ workers' = [workers EXCEPT ![w].pc = "run", ![w].attempt = 0]
            /\ orEvent' = NoOrEvent
            /\ UNCHANGED <<otask, pending_queue, active_tasks, completed_tasks, failed_tasks>>
       ELSE WorkerFinish(w, otask, FALSE, "not handled")
    /\ UNCHANGED <<total_tasks, priority_tasks, running, worker_list, stopper>>
    /\ UNCHANGED <<rlVars, pqVars, rsVars, tuVars, chVars, orPlan>>

\* rate_limiter.acquire() returns and can_handle raises: _execute_task
\* catches the exception, has no further strategy and returns a failure
WorkerCanHandleRaised(w) ==
    /\ workers[w].pc = "acquire"
    /\ ~workers[w].cancel
    /\ WorkerFinish(w, otask, FALSE, "can_handle raised")
    /\ UNCHANGED <<total_tasks, priority_tasks, running, worker_list, stopper>>
    /\ UNCHANGED <<rlVars, pqVars, rsVars, tuVars, chVars, orPlan>>

\* one attempt of RetryStrategy.download ends
RunAttempt(w, outcome) ==
    /\ workers[w].pc = "run"
    /\ ~workers[w].cancel
    /\ LET u == workers[w].task
           attempt == workers[w].attempt
       IN  CASE outcome.kind = "success" ->
                    WorkerFinish(w, otask, TRUE, "success")
             [] outcome.kind = "failure" ->
                    IF should_retry(outcome.message, attempt)
                    THEN /\ workers' = [workers EXCEPT ![w].pc = "backoff"]
                         /\ orEvent' = NoOrEvent
                         /\ UNCHANGED <<otask, pending_queue, active_tasks,
                                        completed_tasks, failed_tasks>>
                    ELSE WorkerFinish(w, otask, FALSE,
                                      IF attempt < StrategyMaxRetries - 1
                                      THEN "non-retryable" ELSE "exhausted")
             [] OTHER ->
                    IF attempt < StrategyMaxRetries - 1
                    THEN /\ workers' = [workers EXCEPT ![w].pc = "backoff"]
                         /\ orEvent' = NoOrEvent
                         /\ UNCHANGED <<otask, pending_queue, active_tasks,
                                        completed_tasks, failed_tasks>>
                    ELSE WorkerFinish(w, [otask EXCEPT ![u].status = "failed"], FALSE,
                                      "exhausted")
    /\ UNCHANGED <<total_tasks, priority_tasks, running, worker_list, stopper>>
    /\ UNCHANGED <<rlVars, pqVars, rsVars, tuVars, chVars, orPlan>>

\* the sleep before the next attempt is over: retry_count += 1, and the
\* next attempt starts with status RETRYING
BackoffDone(w) ==
    /\ workers[w].pc = "backoff"
    /\ ~workers[w].cancel
    /\ otask' = [otask EXCEPT ![workers[w].task].retry_count = @ + 1,
                              ![workers[w].task].status = "retrying"]
    /\ workers' = [workers EXCEPT ![w].pc = "run", ![w].attempt = @ + 1]
    /\ UNCHANGED <<total_tasks, pending_queue, priority_tasks, active_tasks,
                   completed_tasks, failed_tasks, running, worker_list, stopper>>
    /\ orEvent' = NoOrEvent
    /\ UNCHANGED <<rlVars, pqVars, rsVars, tuVars, chVars, orPlan>>

\* get_stats(): _calculate_stats and a copy of self.stats.  The counters
\* stats['completed_tasks'] and stats['failed_tasks'] are incremented with
\* each append to the list of the same name and nowhere else, so they are
\* read off the lists; success_rate is rounded down to a whole number.
get_stats ==
    [total_tasks |-> total_tasks,
     completed_tasks |-> Len(completed_tasks),
     failed_tasks |-> Len(failed_tasks),
     success_rate |-> IF total_tasks > 0
                      THEN (Len(completed_tasks) * 100) \div total_tasks ELSE 0]

\* wait_completion(timeout) finds, while running, the three collections
\* empty and leaves its loop before the timeout
WaitCompletionReturns ==
    /\ running
    /\ pending_queue = <<>>
    /\ priority_tasks = <<>>
    /\ active_tasks = {}
    /\ orEvent' = [kind |-> "completion"]
    /\ UNCHANGED <<otask, total_tasks, pending_queue, priority_tasks, active_tasks,
                   completed_tasks, failed_tasks, workers, worker_list, stopper, running>>
    /\ UNCHANGED <<rlVars, pqVars, rsVars, tuVars, chVars, orPlan>>

\* get_task_status(task_id): active_tasks, completed_tasks, failed_tasks
\* and priority_tasks are looked through in this order, then None
get_task_status(u) ==
    IF u \in active_tasks THEN otask[u].status
    ELSE IF \E i \in 1..Len(completed_tasks) : completed_tasks[i] = u THEN "completed"
    ELSE IF \E i \in 1..Len(failed_tasks) : failed_tasks[i] = u THEN "failed"
    ELSE IF \E i \in 1..Len(priority_tasks) : priority_tasks[i] = u THEN "pending"
    ELSE "None"

\* add_task for the next unit of the end-to-end run
SubmitEndToEnd ==
    /\ total_tasks < Len(EndToEndPriorities)
    /\ OrchAddTask(EndToEndPriorities[total_tasks + 1])

\* The end-to-end run: the three units are submitted, before or after
\* start(), stop() is not called, and the single strategy handles every
\* unit and succeeds.
NextEndToEnd ==
    \/ SubmitEndToEnd
    \/ Start
    \/ \E w \in Workers : WorkerTakePriority(w)
    \/ \E w \in Workers : WorkerWait(w)
    \/ \E w \in Workers : WorkerTakePending(w)
    \/ \E w \in Workers : WorkerTimeout(w)
    \/ \E w \in Workers : WorkerMarkActive(w)
    \/ \E w \in Workers : WorkerAcquired(w, TRUE)
    \/ \E w \in Workers : RunAttempt(w, Succeeded)

\* Submissions alone, before start(): up to LaneUnits units of any
\* priority, negative ones included, with config.priority_queue on or off.
LanePriorities == {-1, 0, 1, 2}
LanePlans ==
    { [units |-> LaneUnits, overlap |-> FALSE, priority_queue |-> b] : b \in BOOLEAN }

NextLane == \E priority \in LanePriorities : OrchAddTask(priority)

\* what one worker coroutine does, from one suspension to the next
WorkerStep(w) ==
    \/ WorkerTakePriority(w)
    \/ WorkerWait(w)
    \/ WorkerTakePending(w)
    \/ WorkerTimeout(w)
    \/ WorkerMarkActive(w)
    \/ \E handles \in BOOLEAN : WorkerAcquired(w, handles)
    \/ WorkerCanHandleRaised(w)
    \/ \E outcome \in Outcomes : RunAttempt(w, outcome)
    \/ BackoffDone(w)

\* Runs in which start() is called once and stop() never: units are
\* submitted before and after start(), and the strategy answers in any way.
NextKeepRunning ==
    \/ \E priority \in Priorities : OrchAddTask(priority)
    \/ Start
    \/ \E w \in Workers : WorkerStep(w)

\* start() is called, and the event loop gives every worker its turn:
\* every await of a worker returns, the strategy calls and the waits of
\* the rate limiter included
FairKeepRunning ==
    /\ WF_vars(Start)
    /\ \A w \in Workers : WF_vars(WorkerStep(w))

\* start() on a running orchestrator: it logs a warning and returns
StartRunning ==
    /\ running
    /\ orEvent' = [kind |-> "start ignored"]
    /\ UNCHANGED <<otask, total_tasks, pending_queue, priority_tasks, active_tasks,
                   completed_tasks, failed_tasks, workers, worker_list, stopper, running>>
    /\ UNCHANGED <<rlVars, pqVars, rsVars, tuVars, chVars, orPlan>>

\* Runs that stop and start again: up to RestartUnits units of priority 1,
\* which the one strategy handles and downloads; start() is called on a
\* stopped and on a running orchestrator, stop() at any time.
RestartPlan == [units |-> RestartUnits, overlap |-> FALSE, priority_queue |-> TRUE]

NextRestart ==
    \/ OrchAddTask(1)
    \/ Start
    \/ StartRunning
    \/ StopBegin
    \/ StopNotRunning
    \/ StopEnd
    \/ \E w \in Workers : WorkerCancelled(w)
    \/ \E w \in Workers : WorkerTakePriority(w)
    \/ \E w \in Workers : WorkerAcquired(w, TRUE)
    \/ \E w \in Workers : RunAttempt(w, Succeeded)

NextOrch ==
    \/ \E priority \in Priorities : OrchAddTask(priority)
    \/ Start
    \/ StopBegin
    \/ StopNotRunning
    \/ \E w \in Workers : WorkerCancelled(w)
    \/ \E w \in Workers : WorkerExit(w)
    \/ StopEnd
    \/ \E w \in Workers : WorkerTakePriority(w)
    \/ \E w \in Workers : WorkerWait(w)
    \/ \E w \in Workers : WorkerTakePending(w)
    \/ \E w \in Workers : WorkerTimeout(w)
    \/ \E w \in Workers : WorkerMarkActive(w)
    \/ \E w \in Workers, handles \in BOOLEAN : WorkerAcquired(w, handles)
    \/ \E w \in Workers : WorkerCanHandleRaised(w)
    \/ WaitCompletionReturns
    \/ \E w \in Workers, outcome \in Outcomes : RunAttempt(w, outcome)
    \/ \E w \in Workers : BackoffDone(w)

--------------------------------------------------------------------------
(* RetryStrategy.download called directly, on one unit, by one caller.   *)
(* The wrapped strategy is any strategy: each invocation ends in one of  *)
(* the Outcomes.                                                          *)

MaxCalls == 2             \* download is called at most this often

NoResult == [success |-> FALSE, message |-> <<>>, returned |-> FALSE]
NoStats == [total_retries |-> 0, successful_retries |-> 0, failed_retries |-> 0]

InitRetry ==
    rs = [pc |-> "idle", calls |-> 0, attempt |-> 0, invocations |-> 0,
          outcomes |-> <<>>,
          task |-> [retry_count |-> 0, status |-> "pending"],
          original_retry_count |-> 0,
          retry_stats |-> NoStats, stats_before |-> NoStats,
          result |-> NoResult]

\* retry_count += 1 and retry_stats['total_retries'] += 1 after the sleep
count_retry(r) ==
    [r EXCEPT !.task.retry_count = @ + 1, !.retry_stats.total_retries = @ + 1]

\* retry_stats['successful_retries'] after a successful attempt
count_success_per_attempt(stats, attempt) ==
    [stats EXCEPT !.successful_retries = @ + attempt]

count_success(stats, attempt) ==
    [stats EXCEPT !.successful_retries = IF attempt > 0 THEN @ + 1 ELSE @]

\* str(n) for the attempt counts of the model
Str(n) == <<"0", "1", "2", "3">>[n + 1]

\* the error_message built after the loop, from max_retries and last_error
terminal_message(n, last_error) ==
    <<"retried", Str(n), "times,", "still", "failing:">> \o last_error

\* the except branch asking _should_retry about str(e)
retry_after_exception_classified(message, attempt) == should_retry(message, attempt)

\* the except branch of download: 'if attempt < self.max_retries - 1'
retry_after_exception(message, attempt) == attempt < StrategyMaxRetries - 1

\* download(task) is entered: original_retry_count = task.retry_count
Download ==
    /\ rs.pc \in {"idle", "returned"}
    /\ rs.calls < MaxCalls
    /\ rs' = [rs EXCEPT !.pc = "attempt", !.calls = @ + 1, !.attempt = 0,
                        !.invocations = 0, !.outcomes = <<>>,
                        !.original_retry_count = rs.task.retry_count,
                        !.stats_before = rs.retry_stats,
                        !.result = NoResult]
    /\ UNCHANGED <<rlVars, pqVars, orVars, tuVars, chVars>>

\* one round of the for loop up to its return, its sleep or its break: the
\* wrapped strategy is invoked and ends in `outcome`
Attempt(outcome) ==
    /\ rs.pc = "attempt"
    /\ LET r0 == [rs EXCEPT !.task.status = IF rs.attempt > 0 THEN "retrying" ELSE @,
                            !.invocations = @ + 1,
                            !.outcomes = Append(@, outcome)]
       IN  rs' =
             CASE outcome.kind = "success" ->
                    [r0 EXCEPT !.pc = "returned",
                               !.retry_stats = count_success(@, rs.attempt),
                               !.result = [success |-> TRUE, message |-> <<>>,
                                           returned |-> TRUE]]
               [] outcome.kind = "failure" ->
                    IF should_retry(outcome.message, rs.attempt)
                    THEN [r0 EXCEPT !.pc = "sleep"]
                    ELSE [r0 EXCEPT !.pc = "returned",
                                    !.result = [success |-> FALSE,
                                                message |-> outcome.message,
                                                returned |-> TRUE]]
               [] OTHER ->
                    IF retry_after_exception(outcome.message, rs.attempt)
                    THEN [r0 EXCEPT !.pc = "sleep"]
                    ELSE [r0 EXCEPT !.pc = "returned",
                                    !.task.status = "failed",
                                    !.retry_stats.failed_retries = @ + 2,
                                    !.result = [success |-> FALSE,
                                                message |->
                                                    terminal_message(StrategyMaxRetries,
                                                                     outcome.message),
                                                returned |-> TRUE]]
    /\ UNCHANGED <<rlVars, pqVars, orVars, tuVars, chVars>>

\* asyncio.sleep(delay) is over: the retry is counted and the loop goes on
SleepDone ==
    /\ rs.pc = "sleep"
    /\ rs' = [count_retry(rs) EXCEPT !.pc = "attempt", !.attempt = @ + 1]
    /\ UNCHANGED <<rlVars, pqVars, orVars, tuVars, chVars>>

NextRetry ==
    \/ Download
    \/ \E outcome \in Outcomes : Attempt(outcome)
    \/ SleepDone

--------------------------------------------------------------------------
(* AdaptiveRateLimiter, its self-tuning on its own: the limiter is seen   *)
(* at the moments a permit is recorded and a failure is recorded, and     *)
(* what the trailing windows hold at those moments is any content the     *)
(* ceilings allow.                                                        *)

MaxTuneSteps == 3         \* permits and failures looked at per behaviour

TuneLimits ==
    { [max_per_second |-> 2, max_per_minute |-> 30, max_per_hour |-> 1000,
       burst_size |-> 5, cooldown_time |-> 60],
      [max_per_second |-> 20, max_per_minute |-> 50, max_per_hour |-> 90,
       burst_size |-> 5, cooldown_time |-> 1],
      [max_per_second |-> 5, max_per_minute |-> 50, max_per_hour |-> 90,
       burst_size |-> 5, cooldown_time |-> 1] }

\* how many permits the trailing 60 s hold when one is recorded (itself
\* included), how many failures they hold, and how many failures the
\* trailing 10 s hold when one is recorded (itself included)
PermitCounts == {1, 10, 11, 20, 21, 30}
FailureCounts == {0, 1, 2, 3, 4, 7, 10}
BurstCounts == {1, 4, 5, 6}
TuneDeltas == {1, 600}

NoTuneEvent == [kind |-> "none"]

\* n timestamps that lie just inside the window w at time now, after one
\* that has just left it
Stamps(n, now, w) == <<now - w>> \o [i \in 1..n |-> now - w + 1]

InitTune ==
    \E l \in TuneLimits, s \in Strategies :
        tune = [config |-> WithStrategy(l, s),
                current_max |-> [per_second |-> l.max_per_second,
                                 per_minute |-> l.max_per_minute,
                                 per_hour   |-> l.max_per_hour],
                cooldown_until |-> 0, now |-> 0, steps |-> 0,
                event |-> NoTuneEvent]

TuneAtRest ==
    tune = [config |-> WithStrategy(WideLimits, "adaptive"),
            current_max |-> [per_second |-> WideLimits.max_per_second,
                             per_minute |-> WideLimits.max_per_minute,
                             per_hour   |-> WideLimits.max_per_hour],
            cooldown_until |-> 0, now |-> 0, steps |-> 0,
            event |-> NoTuneEvent]

\* acquire() from requests.append(now) to return True, for a call that
\* _can_proceed has let through with nr - 1 permits in the trailing 60 s
TunePermit(d, nr, nf) ==
    /\ tune.steps < MaxTuneSteps
    /\ LET now == tune.now + d
           reqs1 == Stamps(nr - 1, now, MinuteWindow)
           fails1 == Stamps(nf, now, MinuteWindow)
           reqs2 == Append(reqs1, now)
           cur2 == IF tune.config.strategy = "adaptive"
                   THEN adjust_rate(reqs2, fails1, tune.current_max, tune.config, now)
                   ELSE tune.current_max
       IN  /\ can_proceed(reqs1, tune.current_max, tune.config, now)
           /\ tune' = [tune EXCEPT !.now = now, !.steps = @ + 1,
                                   !.current_max = cur2,
                                   !.event = [kind |-> "permit", permits |-> nr,
                                              failures |-> nf,
                                              before |-> tune.current_max,
                                              after |-> cur2]]
    /\ UNCHANGED <<rlVars, pqVars, orVars, rsVars, chVars>>

\* record_failure() with nf - 1 earlier failures in the trailing 10 s
TuneFailure(d, nf) ==
    /\ tune.steps < MaxTuneSteps
    /\ LET now == tune.now + d
           fails1 == Append(Stamps(nf - 1, now, FailureWindow), now)
           hit == tune.config.strategy = "adaptive" /\ failure_burst(fails1, now)
           cur2 == IF hit THEN decrease_rate(tune.current_max) ELSE tune.current_max
           cd2 == IF hit THEN now + tune.config.cooldown_time * SecondWindow
                         ELSE tune.cooldown_until
       IN  tune' = [tune EXCEPT !.now = now, !.steps = @ + 1,
                                !.current_max = cur2, !.cooldown_until = cd2,
                                !.event = [kind |-> "failure", recent |-> nf, at |-> now,
                                           before |-> tune.current_max, after |-> cur2,
                                           cooldown_before |-> tune.cooldown_until,
                                           cooldown_after |-> cd2]]
    /\ UNCHANGED <<rlVars, pqVars, orVars, rsVars, chVars>>

NextTune ==
    \/ \E d \in TuneDeltas, nr \in PermitCounts, nf \in FailureCounts : TunePermit(d, nr, nf)
    \/ \E d \in TuneDeltas, nf \in BurstCounts : TuneFailure(d, nf)

--------------------------------------------------------------------------
(* DownloadOrchestrator: register_strategy and one _execute_task at a     *)
(* time, on one unit.  Each strategy answers can_handle and download in   *)
(* any way a strategy can.                                                *)

MaxExecutions == 2        \* _execute_task is called at most this often

\* the built-in strategies and their get_priority (api_strategy.py:43,
\* browser_strategy.py:72), and one more of the same priority as the latter
StrategyNames == {"api", "browser", "custom"}
get_priority == [api |-> 100, browser |-> 50, custom |-> 50]

\* what one round of the loop over the strategies comes to
Rounds == {"declines", "can_handle raises", "succeeds", "fails", "download raises"}

\* register_strategy without the sort of line 108
sort_strategies_skipped(list) == list

\* strategies.sort(key=lambda s: s.get_priority(), reverse=True): stable,
\* highest first
RECURSIVE sort_strategies(_)
sort_strategies(list) ==
    IF list = <<>> THEN <<>>
    ELSE LET n == Len(list)
             last == list[n]
             front == sort_strategies(SubSeq(list, 1, n - 1))
             k == Cardinality({ i \in 1..Len(front) :
                                  get_priority[front[i]] >= get_priority[last] })
         IN  SubSeq(front, 1, k) \o <<last>> \o SubSeq(front, k + 1, Len(front))

InitChain ==
    chain = [strategies |-> <<>>, registered |-> <<>>, pc |-> "idle", pos |-> 0,
             executions |-> 0, calls |-> <<>>, success |-> FALSE]

ChainAtRest == InitChain

\* register_strategy(strategy), while no _execute_task is under way
RegisterStrategy(name) ==
    /\ chain.pc \in {"idle", "returned"}
    /\ \A i \in 1..Len(chain.strategies) : chain.strategies[i] # name
    /\ chain' = [chain EXCEPT !.strategies = sort_strategies(Append(@, name)),
                              !.registered = Append(@, name),
                              !.pc = "idle", !.pos = 0, !.calls = <<>>,
                              !.success = FALSE]
    /\ UNCHANGED <<rlVars, pqVars, orVars, rsVars, tuVars>>

\* _execute_task(task) is entered
ExecuteTask ==
    /\ chain.pc \in {"idle", "returned"}
    /\ chain.executions < MaxExecutions
    /\ chain' = [chain EXCEPT !.pc = "loop", !.pos = 1, !.executions = @ + 1,
                              !.calls = <<>>, !.success = FALSE]
    /\ UNCHANGED <<rlVars, pqVars, orVars, rsVars, tuVars>>

\* one round of 'for strategy in self.strategies'
StrategyRound(round) ==
    /\ chain.pc = "loop"
    /\ chain.pos <= Len(chain.strategies)
    /\ LET name == chain.strategies[chain.pos]
           asked == [strategy |-> name, op |-> "can_handle",
                     answer |-> IF round = "declines" THEN "false"
                                ELSE IF round = "can_handle raises" THEN "raise"
                                ELSE "true"]
           ran == [strategy |-> name, op |-> "download",
                   answer |-> IF round = "succeeds" THEN "success"
                              ELSE IF round = "fails" THEN "failure" ELSE "raise"]
           calls1 == IF round \in {"declines", "can_handle raises"}
                     THEN Append(chain.calls, asked)
                     ELSE chain.calls \o <<asked, ran>>
       IN  chain' = IF round = "succeeds"
                    THEN [chain EXCEPT !.calls = calls1, !.pc = "returned",
                                       !.success = TRUE]
                    ELSE [chain EXCEPT !.calls = calls1, !.pos = @ + 1]
    /\ UNCHANGED <<rlVars, pqVars, orVars, rsVars, tuVars>>

\* the loop is over: DownloadResult(success=False, ...)
AllStrategiesFailed ==
    /\ chain.pc = "loop"
    /\ chain.pos > Len(chain.strategies)
    /\ chain' = [chain EXCEPT !.pc = "returned", !.success = FALSE]
    /\ UNCHANGED <<rlVars, pqVars, orVars, rsVars, tuVars>>

NextChain ==
    \/ \E name \in StrategyNames : RegisterStrategy(name)
    \/ ExecuteTask
    \/ \E round \in Rounds : StrategyRound(round)
    \/ AllStrategiesFailed

--------------------------------------------------------------------------
(* Specifications: one per component, the others at rest *)

LimiterAtRest == InitLimiterWith(<<WithStrategy(WideLimits, "adaptive"), WideBudget>>)
QueueAtRest == InitQueueWith(PriorityPool)

InitRL == InitLimiter /\ QueueAtRest /\ OrchAtRest /\ InitRetry /\ TuneAtRest /\ ChainAtRest
NextRL == NextLimiter
SpecRL == InitRL /\ [][NextRL]_vars

InitPQ == LimiterAtRest /\ InitQueue /\ OrchAtRest /\ InitRetry /\ TuneAtRest /\ ChainAtRest
NextPQ == NextQueue
SpecPQ == InitPQ /\ [][NextPQ]_vars

InitOR == LimiterAtRest /\ QueueAtRest /\ InitOrch /\ InitRetry /\ TuneAtRest /\ ChainAtRest
NextOR == NextOrch
SpecOR == InitOR /\ [][NextOR]_vars

InitE2E ==
    /\ LimiterAtRest /\ QueueAtRest /\ InitRetry /\ TuneAtRest /\ ChainAtRest
    /\ InitOrchWith([units |-> Len(EndToEndPriorities), overlap |-> FALSE,
                     priority_queue |-> TRUE])
NextE2E == NextEndToEnd
SpecE2E == InitE2E /\ [][NextE2E]_vars

InitRS == LimiterAtRest /\ QueueAtRest /\ OrchAtRest /\ InitRetry /\ TuneAtRest /\ ChainAtRest
NextRS == NextRetry
SpecRS == InitRS /\ [][NextRS]_vars

InitLA ==
    /\ LimiterAtRest /\ QueueAtRest /\ InitRetry /\ TuneAtRest /\ ChainAtRest
    /\ \E plan \in LanePlans : InitOrchWith(plan)
NextLA == NextLane
SpecLA == InitLA /\ [][NextLA]_vars

InitRO ==
    /\ LimiterAtRest /\ InitStoreLeftBehind /\ OrchAtRest /\ InitRetry /\ TuneAtRest
    /\ ChainAtRest
NextRO == NextReopen
SpecRO == InitRO /\ [][NextRO]_vars

InitRE ==
    /\ LimiterAtRest /\ QueueAtRest /\ InitRetry /\ TuneAtRest /\ ChainAtRest
    /\ InitOrchWith(RestartPlan)
NextRE == NextRestart
SpecRE == InitRE /\ [][NextRE]_vars

InitBP == LimiterAtRest /\ InitQueue /\ OrchAtRest /\ InitRetry /\ TuneAtRest /\ ChainAtRest
NextBP == NextBackpressure
SpecBP == InitBP /\ [][NextBP]_vars

InitKR ==
    /\ LimiterAtRest /\ QueueAtRest /\ InitRetry /\ TuneAtRest /\ ChainAtRest
    /\ InitOrchWith([units |-> MaxUnits, overlap |-> FALSE, priority_queue |-> TRUE])
NextKR == NextKeepRunning
SpecKR == InitKR /\ [][NextKR]_vars /\ FairKeepRunning

InitTU ==
    /\ LimiterAtRest /\ QueueAtRest /\ OrchAtRest /\ InitRetry /\ InitTune
    /\ ChainAtRest

InitCH ==
    /\ LimiterAtRest /\ QueueAtRest /\ OrchAtRest /\ InitRetry /\ TuneAtRest
    /\ InitChain
NextCH == NextChain
SpecCH == InitCH /\ [][NextCH]_vars
NextTU == NextTune
SpecTU == InitTU /\ [][NextTU]_vars

Init == InitLimiter /\ InitQueue /\ InitOrch /\ InitRetry /\ InitTune /\ InitChain
Next == NextLimiter \/ NextQueue \/ NextOrch \/ NextRetry \/ NextTune \/ NextChain
Spec == Init /\ [][Next]_vars

--------------------------------------------------------------------------
(* AdaptiveRateLimiter: properties *)

Granted == lastGrant.n > 0

\* C1 (as claimed): when acquire() returns a permit, the recorded permits in
\* the trailing 1 s, 60 s and 3600 s of real time, the new one included, are
\* at most current_max_per_second, current_max_per_minute and
\* current_max_per_hour as they are at that moment.
C1_WithinCurrentCeilings ==
    Granted =>
        /\ lastGrant.in_second <= lastGrant.returned.per_second
        /\ lastGrant.in_minute <= lastGrant.returned.per_minute
        /\ lastGrant.in_hour <= lastGrant.returned.per_hour

\* C1 (amended): when acquire() returns a permit, the recorded permits in the
\* trailing 1 s, 60 s and 3600 s of real time, the new one included, are at
\* most the ceilings that were in force when this call checked the windows,
\* that is before its own self-tuning step.
C1_WithinCheckedCeilings ==
    Granted =>
        /\ lastGrant.in_second <= lastGrant.checked.per_second
        /\ lastGrant.in_minute <= lastGrant.checked.per_minute
        /\ lastGrant.in_hour <= lastGrant.checked.per_hour

\* A permit granted after a wait, in adaptive mode, that fills the
\* per-minute window up to the ceiling it was checked against.
C1_Witness ==
    /\ Granted
    /\ config.strategy = "adaptive"
    /\ lastGrant.at > lastGrant.called
    /\ lastGrant.in_minute = lastGrant.checked.per_minute

C3_CooldownAbsolute ==
    Granted => lastGrant.at >= lastGrant.in_force

\* C21 (as claimed): each current ceiling is at least 1 and at most the
\* configured maximum of its horizon.
C21_CeilingsWithinConfig ==
    /\ current_max.per_second \in 1..config.max_per_second
    /\ current_max.per_minute \in 1..config.max_per_minute
    /\ current_max.per_hour \in 1..config.max_per_hour

\* C29: no acquire() call returns False, and a call that returns has
\* appended its own timestamp, once, as the newest permit.
C29_AcquireAlwaysGrants ==
    /\ blocked_requests = 0
    /\ acq.pc = "idle" => (permits = 0 \/ Len(requests) > 0)
    /\ Granted => /\ lastGrant.n = permits
                  /\ requests # << >>
                  /\ requests[Len(requests)] = lastGrant.stamp

\* a call that found only the per-hour ceiling reached, waited, and was
\* granted its permit once the hour had passed
C29_Witness ==
    /\ Granted
    /\ lastGrant.called = MinuteWindow
    /\ lastGrant.at >= lastGrant.called + HourWindow
    /\ lastGrant.n = config.max_per_hour + 1

\* the 0.7 rule of _decrease_rate, with its floors
Shrunk(c) ==
    [per_second |-> Max(1, Int07(c.per_second)),
     per_minute |-> Max(10, Int07(c.per_minute)),
     per_hour   |-> Max(100, Int07(c.per_hour))]

\* C27: in adaptive mode a record_failure() call that brings the failures
\* of the trailing 10 seconds to 5 or more sets cooldown_until to now +
\* cooldown_time and shrinks each ceiling c to max(floor, int(0.7 * c)),
\* floors 1, 10 and 100; with fewer than 5 it leaves ceilings and cooldown
\* as they were.
C27_FailureBurstShrinks ==
    (tune.event.kind = "failure" /\ tune.config.strategy = "adaptive")
       => IF tune.event.recent >= 5
          THEN /\ tune.event.cooldown_after
                     = tune.event.at + 10 * tune.config.cooldown_time
               /\ tune.cooldown_until = tune.event.cooldown_after
               /\ tune.event.after = Shrunk(tune.event.before)
               /\ tune.current_max = tune.event.after
          ELSE /\ tune.event.cooldown_after = tune.event.cooldown_before
               /\ tune.event.after = tune.event.before
               /\ tune.current_max = tune.event.before

\* the fifth failure within 10 seconds shrinks 1/21/700 to 1/14/489
C27_Witness ==
    /\ tune.event.kind = "failure"
    /\ tune.config.strategy = "adaptive"
    /\ tune.event.recent = 5
    /\ tune.event.before = [per_second |-> 1, per_minute |-> 21, per_hour |-> 700]
    /\ tune.current_max = [per_second |-> 1, per_minute |-> 14, per_hour |-> 489]
    /\ tune.cooldown_until = tune.now + 600

\* C28: in adaptive mode a granted permit shrinks the ceilings by the 0.7
\* rule when the trailing 60 seconds hold more than 10 permits and
\* failures/permits exceeds 0.3, grows each ceiling c to min(configured
\* maximum, int(1.2 * c)) when the ratio is below 0.05 and the window
\* holds more than 20 permits, and leaves them unchanged otherwise; in
\* fixed and burst mode it always leaves them unchanged.
C28_SelfTuning ==
    tune.event.kind = "permit"
       => LET nr == tune.event.permits
              nf == tune.event.failures
              c == tune.event.before
          IN  /\ tune.current_max = tune.event.after
              /\ tune.event.after =
                    IF tune.config.strategy # "adaptive" THEN c
                    ELSE IF nr > 10 /\ 10 * nf > 3 * nr THEN Shrunk(c)
                    ELSE IF 100 * nf < 5 * nr /\ nr > 20
                    THEN [per_second |-> Min(tune.config.max_per_second,
                                             (12 * c.per_second) \div 10),
                          per_minute |-> Min(tune.config.max_per_minute,
                                             (12 * c.per_minute) \div 10),
                          per_hour |-> Min(tune.config.max_per_hour,
                                           (12 * c.per_hour) \div 10)]
                    ELSE c

\* a permit with 21 permits and one failure in the window grows 1/21/700
\* to 1/25/840
C28_Witness ==
    /\ tune.event.kind = "permit"
    /\ tune.config.strategy = "adaptive"
    /\ tune.event.permits = 21
    /\ tune.event.failures = 1
    /\ tune.event.before = [per_second |-> 1, per_minute |-> 21, per_hour |-> 700]
    /\ tune.current_max = [per_second |-> 1, per_minute |-> 25, per_hour |-> 840]

--------------------------------------------------------------------------
(* PersistentQueue: properties *)

Recovered == boot.intact

DueAtCrash == { id \in TaskIds : boot.before[id] \in {"processing", "pending"} }

\* C5: after a restart on a store whose unfinished records are N Processing
\* and M Pending (none Retrying, N+M within the capacity), the queue was
\* loaded with exactly those N+M units, each once, every one of them stored
\* as Pending by the recovery, and, as long as nothing is added, get_task
\* takes them off in descending priority, the older first among equals.
C5_RecoveryDelivers ==
    (/\ Recovered
     /\ \A id \in TaskIds : boot.before[id] # "retrying"
     /\ Cardinality(DueAtCrash) <= MaxSize)
    => /\ Range(boot.loaded) = DueAtCrash
       /\ Len(boot.loaded) = Cardinality(DueAtCrash)
       /\ \A id \in DueAtCrash : boot.after[id] = "pending"
       /\ \A i, j \in 1..Len(boot.loaded) :
             i < j => /\ pool[boot.loaded[i]].priority >= pool[boot.loaded[j]].priority
                      /\ pool[boot.loaded[i]].priority = pool[boot.loaded[j]].priority
                            => pool[boot.loaded[i]].created_at <= pool[boot.loaded[j]].created_at
       /\ boot.delivered \o queue = boot.loaded

C5_Witness ==
    /\ Recovered
    /\ \E id \in TaskIds : boot.before[id] = "processing"
    /\ \E id \in TaskIds : boot.before[id] = "pending"
    /\ boot.delivered = <<"t2", "t1">>
    /\ queue = <<>>

\* C7 (as claimed): a stored status Completed or Failed is never changed
\* to another status; the record can only be deleted.
C7_TerminalIsFinal ==
    [][\A id \in TaskIds :
          store[id].status \in Terminal
             => store'[id].status \in {store[id].status, "none"}]_vars

\* C8 (as claimed): the unit get_task takes off the queue has the highest
\* priority of the units in the queue and, among those, the earliest
\* creation time.
C8_HighestPriorityFirst ==
    [][\A c \in Consumers :
          (cpc[c].st = "idle" /\ cpc'[c].st = "got")
             => \A i \in 1..Len(queue) :
                   RowBefore(pool[cpc'[c].task], pool[queue[i]])]_vars

\* C9: a unit that get_task returns has stored status Processing when it
\* is returned, whatever add_task, requeue_task and update_task_status
\* calls ran between its removal from the queue and its return (a record
\* that cleanup_old_tasks has deleted has no status to set).
C9_ReturnedIsProcessing ==
    (pqEvent.kind = "get" /\ pqEvent.task \notin purged)
        => pqEvent.stored = "processing"

C9_Witness ==
    /\ pqEvent.kind = "get"
    /\ pqEvent.stored = "processing"
    /\ mem[pqEvent.task].status = "retrying"
    /\ \E c \in Consumers : cpc[c].st = "got" /\ cpc[c].task = pqEvent.task

\* C10 (as claimed): every unit in the queue has a record in the store.
C10_QueuedHaveRecord ==
    \A i \in 1..Len(queue) : HasRow(store, queue[i])

\* C10 (amended): every unit in the queue, and every unit add_task is
\* waiting to put in the full queue, has a record in the store unless
\* cleanup_old_tasks has deleted that record since it was written.
C10_QueuedHaveRecordUnlessPurged ==
    /\ \A i \in 1..Len(queue) : HasRow(store, queue[i]) \/ queue[i] \in purged
    /\ \A p \in Producers :
          ppc[p].st = "put" => HasRow(store, ppc[p].task) \/ ppc[p].task \in purged

C10_Witness ==
    /\ Len(queue) = MaxSize
    /\ \A i \in 1..Len(queue) : HasRow(store, queue[i])
    /\ \E p \in Producers : ppc[p].st = "put" /\ store[ppc[p].task].status = "retrying"
    /\ purged # {}

--------------------------------------------------------------------------
(* DownloadOrchestrator and RetryStrategy: properties *)

\* C4 (as claimed): the retry_count of a unit never exceeds its
\* max_retries, however often the orchestrator runs it through the
\* RetryStrategy chain.
C4_RetryCountBounded ==
    \A u \in Units : otask[u].retry_count <= TaskMaxRetries

\* C6: two workers never hold the same unit, and a unit a worker has
\* pulled and not yet finished is in neither queue, so that no other
\* worker can pull it.
C6_SingleOwner ==
    /\ \A w1, w2 \in Workers :
          (w1 # w2 /\ Holding(w1) /\ Holding(w2)) => workers[w1].task # workers[w2].task
    /\ \A w \in Workers :
          Holding(w) => /\ workers[w].task \notin Range(pending_queue)
                        /\ workers[w].task \notin Range(priority_tasks)

C6_Witness ==
    \E w1, w2 \in Workers :
        /\ w1 # w2
        /\ workers[w1].pc = "run" /\ workers[w2].pc = "run"
        /\ workers[w1].attempt = 0
        /\ otask[workers[w1].task].retry_count > 0
        /\ otask[workers[w2].task].priority > 0

\* C13 (as claimed): a unit whose failure RetryStrategy classified as
\* non-retryable is not put back in the queue by the worker: it goes to
\* failed_tasks after that one execution.
C13_NonRetryableNotRequeued ==
    (orEvent.kind = "finish" /\ orEvent.verdict = "non-retryable")
       => /\ ~orEvent.requeued
          /\ orEvent.task \in Range(failed_tasks)
          /\ orEvent.task \notin Range(pending_queue)

\* the end-to-end run is over: every unit was submitted and none is
\* waiting or in a worker's hands
EndToEndOver ==
    /\ total_tasks = Len(EndToEndPriorities)
    /\ pending_queue = <<>> /\ priority_tasks = <<>> /\ active_tasks = {}
    /\ \A w \in Workers : ~Holding(w)

\* C14 (as claimed): with units of priorities 3, 1 and 0 and a strategy
\* that always succeeds, the priority-3 unit is taken by a worker before
\* the priority-1 unit, the priority-0 unit is taken only when the priority
\* list is empty, and at the end all three are in completed_tasks and
\* get_stats reports completed_tasks = 3 and success_rate = 100.
C14_EndToEnd ==
    /\ 1 \in Range(priority_tasks) => (otask[2].status = "absent" \/ 2 \in Range(priority_tasks))
    /\ (orEvent.kind = "pull" /\ orEvent.task = 3) => orEvent.listed = <<>>
    /\ EndToEndOver => /\ Range(completed_tasks) = {1, 2, 3}
                       /\ get_stats.completed_tasks = 3
                       /\ get_stats.success_rate = 100

\* C17: a unit a worker takes from the priority list has the highest
\* priority of the units in the list at that moment and, among those of
\* that priority, is the one submitted first.
C17_PriorityLaneOrder ==
    (orEvent.kind = "pull" /\ orEvent.lane = "priority")
       => \A u \in Range(orEvent.listed) :
             /\ otask[orEvent.task].priority >= otask[u].priority
             /\ otask[orEvent.task].priority = otask[u].priority => orEvent.task <= u

C17_Witness ==
    /\ orEvent.kind = "pull"
    /\ orEvent.lane = "priority"
    /\ orEvent.listed = <<2, 1>>
    /\ otask[2].priority > otask[1].priority

\* C18 (as claimed): whenever a worker obtains a unit from pending_queue,
\* priority_tasks is empty at that moment.
C18_FifoOnlyWhenPriorityEmpty ==
    (orEvent.kind = "pull" /\ orEvent.lane = "fifo") => orEvent.listed = <<>>

\* C19 (as claimed): when stop() returns, every worker coroutine has
\* terminated, running is false and the worker list is empty, so that no
\* worker pulls or executes a unit any more.
C19_StoppedMeansNoWorker ==
    orEvent.kind = "stopped"
       => /\ ~running
          /\ worker_list = {}
          /\ \A w \in Workers : workers[w].pc = "none"

\* C11: no work is lost or duplicated across a restart.  Whatever add_task,
\* get_task, update_task_status and requeue_task calls preceded the crash,
\* the new queue is loaded exactly once with every unit that add_task had
\* accepted and whose record was not Completed or Failed, with no unit
\* whose record was Completed or Failed, and get_task hands the loaded
\* units out one by one without repeating or skipping any.
C11_NoWorkLostOrDuplicated ==
    Recovered =>
       /\ \A id \in boot.accepted :
             boot.before[id] \in {"pending", "processing", "retrying"}
                => Cardinality({ i \in DOMAIN boot.loaded : boot.loaded[i] = id }) = 1
       /\ \A id \in TaskIds :
             /\ boot.before[id] \in Terminal => id \notin Range(boot.loaded)
             /\ Cardinality({ i \in DOMAIN boot.loaded : boot.loaded[i] = id }) <= 1
       /\ boot.delivered \o queue = boot.loaded

C11_Witness ==
    /\ Recovered
    /\ boot.accepted = TaskIds
    /\ \E id \in TaskIds : boot.before[id] = "retrying" /\ id \in Range(boot.delivered)
    /\ \E id \in TaskIds : boot.before[id] \in Terminal

\* C20: when the INSERT of add_task fails, the call returns False and the
\* queue holds the same units, in the same order, as before the call.
C20_FailedAddLeavesQueue ==
    (pqEvent.kind = "add" /\ ~pqEvent.returned) => queue = pqEvent.before

C20_Witness ==
    /\ pqEvent.kind = "add"
    /\ ~pqEvent.returned
    /\ Len(pqEvent.before) = 1
    /\ \E c \in Consumers : cpc[c].st = "got"

--------------------------------------------------------------------------
(* RetryStrategy: properties *)

\* the attempt of download that has just ended, when it ended in a failure
\* result and was not the last one
FailedEarly ==
    /\ rs.pc \in {"sleep", "returned"}
    /\ rs.outcomes # <<>>
    /\ rs.outcomes[Len(rs.outcomes)].kind = "failure"
    /\ rs.attempt < StrategyMaxRetries - 1

LastMessage == rs.outcomes[Len(rs.outcomes)].message

\* C12 (as claimed): on an attempt that is not the last, a failure whose
\* message contains "timeout" is followed by another attempt, and a failure
\* whose message contains "404" is returned at once, whatever else the
\* message contains.
C12_TimeoutRetried404Not ==
    FailedEarly =>
       /\ Contains(LastMessage, "timeout") => rs.pc = "sleep"
       /\ Contains(LastMessage, "404") => rs.pc = "returned" /\ ~rs.result.success

\* C12 (amended): on an attempt that is not the last, a failure whose
\* message contains "timeout", or another word of the retryable list, is
\* followed by another attempt whatever else it contains; a failure whose
\* message contains "404" is returned at once when the message contains no
\* word of the retryable list.
C12_RetryableWordWins ==
    FailedEarly =>
       /\ Contains(LastMessage, "timeout") => rs.pc = "sleep"
       /\ HasRetryableError(LastMessage) => rs.pc = "sleep"
       /\ (Contains(LastMessage, "404") /\ ~HasRetryableError(LastMessage))
             => rs.pc = "returned" /\ ~rs.result.success
                   /\ rs.result.message = LastMessage

C12_Witness ==
    /\ FailedEarly
    /\ LastMessage = <<"404", "timeout">>
    /\ rs.attempt = 1
    /\ rs.pc = "sleep"

ConnectionReset == [kind |-> "failure", message |-> <<"connection", "reset">>]
Gone == [kind |-> "failure", message |-> <<"410", "deleted">>]

\* C15: when the wrapped strategy fails with "connection reset" on its
\* first two invocations and succeeds on the third, download (max_retries
\* 3) returns a success and successful_retries is greater by exactly 1 than
\* before the call.
C15_SucceedsOnThirdAttempt ==
    (rs.outcomes = <<ConnectionReset, ConnectionReset, Succeeded>>)
       => /\ rs.pc = "returned"
          /\ rs.result.returned /\ rs.result.success
          /\ rs.invocations = 3
          /\ rs.retry_stats.successful_retries = rs.stats_before.successful_retries + 1

C15_Witness ==
    /\ rs.outcomes = <<ConnectionReset, ConnectionReset, Succeeded>>
    /\ rs.calls = 2
    /\ rs.stats_before.successful_retries = 1
    /\ rs.retry_stats.successful_retries = 2

\* C16: when the wrapped strategy always fails with "410 deleted",
\* download (max_retries 3) invokes it exactly once, returns a failure and
\* leaves retry_count as it was before the call.
C16_NonRetryableFailsAtOnce ==
    (rs.outcomes # <<>> /\ \A i \in 1..Len(rs.outcomes) : rs.outcomes[i] = Gone)
       => /\ rs.pc = "returned"
          /\ rs.invocations = 1
          /\ rs.result.returned /\ ~rs.result.success
          /\ rs.task.retry_count = rs.original_retry_count

C16_Witness ==
    /\ rs.outcomes = <<Gone>>
    /\ rs.pc = "returned"
    /\ rs.calls = 2
    /\ rs.original_retry_count = 2
    /\ rs.task.retry_count = 2

\* every invocation of the call has failed in a way that asks for another
\* attempt, and there have been max_retries of them
AllAttemptsFailed ==
    /\ Len(rs.outcomes) = StrategyMaxRetries
    /\ \A i \in 1..Len(rs.outcomes) :
          \/ rs.outcomes[i].kind = "raise"
          \/ /\ rs.outcomes[i].kind = "failure"
             /\ \/ rs.outcomes[i].message = <<>>
                \/ HasRetryableError(rs.outcomes[i].message)

\* C22 (as claimed): when all max_retries attempts of a download call
\* fail, each retryably, as a failure result or as an exception, the call
\* returns a failure whose message records the number of attempts and the
\* last underlying error.
C22_ExhaustedReportsAttempts ==
    AllAttemptsFailed
       => /\ rs.pc = "returned"
          /\ rs.result.returned /\ ~rs.result.success
          /\ rs.result.message
                = terminal_message(StrategyMaxRetries, LastMessage)

InFifo(u) == \E i \in 1..Len(pending_queue) : pending_queue[i] = u
InList(u) == \E i \in 1..Len(priority_tasks) : priority_tasks[i] = u

\* C26 (as claimed): with the priority-queue feature on, add_task puts a
\* unit of priority 0 in the FIFO channel and a unit of any other
\* priority, positive or negative, in the priority-sorted list; with the
\* feature off every unit goes to the FIFO channel.
C26_NonzeroPriorityInList ==
    \A u \in 1..total_tasks :
        IF orPlan.priority_queue /\ otask[u].priority # 0
        THEN InList(u) /\ ~InFifo(u)
        ELSE InFifo(u) /\ ~InList(u)

\* the workers that hold unit u, from the pull to the end of its pass
Holders(u) == { w \in Workers : Holding(w) /\ workers[w].task = u }

\* how often u occurs in a list
Occurrences(list, u) == Cardinality({ i \in 1..Len(list) : list[i] = u })

\* C25: each time a unit's execution fails overall the worker increments
\* its retry_count by exactly one; when the new count is under max_retries
\* the unit goes back to the queue, otherwise it is appended to
\* failed_tasks; on overall success it is appended to completed_tasks.  A
\* unit of completed_tasks or failed_tasks is there once, is in no queue
\* and is held by no worker: it is not executed again.
C25_FailureRouting ==
    /\ orEvent.kind = "finish" =>
          LET u == orEvent.task
              last(list) == list # <<>> /\ list[Len(list)] = u
          IN  IF orEvent.verdict = "success"
              THEN /\ otask[u].retry_count = orEvent.count_before
                   /\ last(completed_tasks)
              ELSE /\ otask[u].retry_count = orEvent.count_before + 1
                   /\ IF orEvent.count_before + 1 < 3
                      THEN /\ last(pending_queue)
                           /\ Occurrences(failed_tasks, u) = 0
                      ELSE /\ last(failed_tasks)
                           /\ Occurrences(pending_queue, u) = 0
    /\ \A u \in 1..total_tasks :
          Occurrences(completed_tasks, u) + Occurrences(failed_tasks, u) > 0
             => /\ Occurrences(completed_tasks, u) + Occurrences(failed_tasks, u) = 1
                /\ Occurrences(pending_queue, u) = 0
                /\ Occurrences(priority_tasks, u) = 0
                /\ u \notin active_tasks
                /\ Holders(u) = {}

\* a unit that no strategy handles is given up at its third pass, after
\* two passes that put it back in the queue
C25_Witness ==
    /\ orEvent.kind = "finish"
    /\ orEvent.verdict = "not handled"
    /\ orEvent.count_before = 2
    /\ otask[orEvent.task].retry_count = 3
    /\ failed_tasks = <<orEvent.task>>
    /\ running

\* C23: when can_handle or download of the strategy raises or returns a
\* failure, the pass ends with the unit back in the queue or in
\* failed_tasks and with the worker that ran it at the top of its loop,
\* not ended; and no worker that holds a unit leaves its loop in one step
\* of its own.
C23_FailureKeepsWorker ==
    [][\A w \in Workers :
          /\ (/\ workers[w].pc \in {"acquire", "run"}
              /\ ~workers[w].cancel
              /\ orEvent'.kind = "finish"
              /\ orEvent'.task = workers[w].task
              /\ orEvent'.verdict # "success")
                => /\ workers'[w] = NextWorker
                   /\ running' = running
                   /\ \/ Occurrences(pending_queue', workers[w].task) = 1
                      \/ Occurrences(failed_tasks', workers[w].task) = 1
          /\ (Holding(w) /\ ~workers[w].cancel)
                => workers'[w].pc \notin {"none", "ended"}]_vars

\* can_handle has raised on a unit; the unit is back in the queue and the
\* orchestrator is running with the worker at the top of its loop
C23_Witness ==
    /\ orEvent.kind = "finish"
    /\ orEvent.verdict = "can_handle raised"
    /\ orEvent.requeued
    /\ running
    /\ pending_queue = <<orEvent.task>>
    /\ \E w \in Workers : workers[w] = NextWorker

\* the calls of the current _execute_task on strategy `name`
CallsOn(name, op) ==
    { i \in 1..Len(chain.calls) :
         chain.calls[i].strategy = name /\ chain.calls[i].op = op }

Capable(name) ==
    \E i \in CallsOn(name, "can_handle") : chain.calls[i].answer = "true"

\* C24: _execute_task calls download only on strategies whose can_handle
\* has just answered true; it goes through the strategies in descending
\* get_priority order whatever the order of their registration; a
\* successful download is its last call and makes the result a success;
\* after a failure or an exception it goes to the next strategy; and it
\* returns a failure only when every registered strategy has been asked
\* and every capable one has been run and has not succeeded.
C24_StrategyChain ==
    LET calls == chain.calls
        n == Len(calls)
    IN  /\ \A i \in 1..n :
              calls[i].op = "download"
                 => /\ i > 1
                    /\ calls[i - 1] = [strategy |-> calls[i].strategy,
                                       op |-> "can_handle", answer |-> "true"]
        /\ \A i, j \in 1..n :
              i < j => /\ get_priority[calls[i].strategy] >= get_priority[calls[j].strategy]
                       /\ (calls[i].op = calls[j].op => calls[i].strategy # calls[j].strategy)
        /\ \A i \in 1..n :
              \A name \in StrategyNames :
                  (/\ \E k \in 1..Len(chain.registered) : chain.registered[k] = name
                   /\ get_priority[name] > get_priority[calls[i].strategy])
                     => \E j \in 1..(i - 1) : calls[j].strategy = name
        /\ \A i \in 1..n :
              (calls[i].op = "download" /\ calls[i].answer = "success")
                 => i = n /\ chain.pc = "returned" /\ chain.success
        /\ (chain.pc = "returned" /\ chain.success)
              => n > 0 /\ calls[n].op = "download" /\ calls[n].answer = "success"
        /\ (chain.pc = "returned" /\ ~chain.success)
              => \A k \in 1..Len(chain.registered) :
                    LET name == chain.registered[k]
                    IN  /\ CallsOn(name, "can_handle") # {}
                        /\ Capable(name)
                              => \E i \in CallsOn(name, "download") :
                                    calls[i].answer \in {"failure", "raise"}

\* registered lowest first; the api strategy is run first and fails, the
\* next one raises and the last one succeeds
C24_Witness ==
    /\ chain.registered = <<"custom", "browser", "api">>
    /\ chain.pc = "returned"
    /\ chain.success
    /\ Len(chain.calls) = 6
    /\ chain.calls[2] = [strategy |-> "api", op |-> "download", answer |-> "failure"]
    /\ chain.calls[4] = [strategy |-> "custom", op |-> "download", answer |-> "raise"]
    /\ chain.calls[6] = [strategy |-> "browser", op |-> "download", answer |-> "success"]

\* C30: startup recovery sets the rows stored as processing to pending and
\* leaves the status of every other row as it was, the pending and
\* retrying rows that found the channel full included; those are loaded by
\* the next recovery on the same store when its channel has room for all
\* the rows it restores.
C30_RecoveryTouchesProcessingOnly ==
    Recovered =>
       /\ \A id \in TaskIds :
             boot.after[id] = IF boot.before[id] = "processing" THEN "pending"
                              ELSE boot.before[id]
       /\ \A id \in boot.skipped_earlier : boot.before[id] \in {"pending", "retrying"}
       /\ LET restored == { id \in TaskIds : boot.after[id] \in {"pending", "retrying"} }
          IN  /\ Len(boot.loaded) = Min(boot.size, Cardinality(restored))
              /\ Range(boot.loaded) \subseteq restored
              /\ boot.size >= Cardinality(restored)
                    => boot.skipped_earlier \subseteq Range(boot.loaded)

\* a recovery with room for one row left a retrying row behind, and the
\* next one, with room for two, has loaded it
C30_Witness ==
    /\ Recovered
    /\ restarts = 2
    /\ boot.size = 2
    /\ boot.skipped_earlier = {"t1"}
    /\ boot.before["t1"] = "retrying"
    /\ boot.after["t1"] = "retrying"
    /\ boot.before["t2"] = "processing"
    /\ "t1" \in Range(boot.loaded)

\* C31: in every download call the wrapped strategy is invoked at least
\* once before the call returns and at most max_retries (3) times, and it
\* is not invoked again after it has returned a success.
C31_InvocationsBounded ==
    /\ rs.invocations <= 3
    /\ rs.invocations = Len(rs.outcomes)
    /\ rs.pc = "returned" => rs.invocations >= 1
    /\ \A i \in 1..Len(rs.outcomes) :
          rs.outcomes[i].kind = "success"
             => i = Len(rs.outcomes) /\ rs.pc = "returned" /\ rs.result.success

\* a failure result, an exception and then a success: three invocations
C31_Witness ==
    /\ rs.pc = "returned"
    /\ rs.invocations = 3
    /\ rs.outcomes[1].kind = "failure"
    /\ rs.outcomes[2].kind = "raise"
    /\ rs.outcomes[3].kind = "success"

LastOutcome(r) == r.outcomes[Len(r.outcomes)]

\* C37: when the wrapped strategy raises and attempts remain, download
\* sleeps and makes the next attempt whatever the text of the exception,
\* and that retry raises retry_count by one.
C37_ExceptionAlwaysRetried ==
    [][/\ (/\ rs.pc = "attempt"
           /\ rs.attempt < 2
           /\ Len(rs'.outcomes) = Len(rs.outcomes) + 1
           /\ LastOutcome(rs').kind = "raise")
             => rs'.pc = "sleep" /\ rs'.task.retry_count = rs.task.retry_count
       /\ (rs.pc = "sleep" /\ LastOutcome(rs).kind = "raise")
             => /\ rs'.pc = "attempt"
                /\ rs'.attempt = rs.attempt + 1
                /\ rs'.task.retry_count = rs.task.retry_count + 1]_vars

\* an exception whose text holds "deleted" has been followed by a sleep,
\* and the second attempt is under way with retry_count one higher
C37_Witness ==
    /\ rs.pc = "attempt"
    /\ rs.attempt = 1
    /\ rs.outcomes = <<[kind |-> "raise", message |-> <<"410", "deleted">>]>>
    /\ rs.task.retry_count = rs.original_retry_count + 1

\* C40: int(1.2 * c) = c for every ceiling c <= 4, and a per-second
\* ceiling of 4 or less is not raised by any permit or failure.
C40_NoGrowthBelowFive ==
    [][/\ \A c \in 1..4 : Int12(c) = c
       /\ tune.current_max.per_second <= 4
             => tune'.current_max.per_second <= tune.current_max.per_second]_vars

\* a limiter configured for 5 per second, shrunk to 3: a permit with a low
\* failure ratio raises the per-minute ceiling and leaves the 3
C40_Witness ==
    /\ tune.event.kind = "permit"
    /\ tune.config.max_per_second = 5
    /\ tune.event.before.per_second = 3
    /\ tune.event.before.per_minute = 35
    /\ tune.event.after.per_minute = 42
    /\ tune.current_max.per_second = 3

\* C39 (as claimed): for every unit add_task has accepted, get_task_status
\* returns a status and not None: Pending while the unit waits in the FIFO
\* channel or in the priority list, Completed once it is in
\* completed_tasks, Failed once it is in failed_tasks.
C39_StatusOfEverySubmittedUnit ==
    \A u \in 1..total_tasks :
        /\ get_task_status(u) # "None"
        /\ (InFifo(u) \/ InList(u)) => get_task_status(u) = "pending"
        /\ Occurrences(completed_tasks, u) > 0 => get_task_status(u) = "completed"
        /\ Occurrences(failed_tasks, u) > 0 => get_task_status(u) = "failed"

\* C38 (as claimed): a unit that fails and is put back goes to the FIFO
\* channel whatever its priority, and a unit of positive priority that is
\* pulled from the FIFO channel, which is such a unit on a later pass, is
\* pulled only when the priority list is empty.
C38_RequeuedWaitsForPriorityList ==
    /\ (orEvent.kind = "finish" /\ orEvent.requeued)
          => /\ pending_queue # <<>>
             /\ pending_queue[Len(pending_queue)] = orEvent.task
             /\ ~InList(orEvent.task)
    /\ (orEvent.kind = "pull" /\ orEvent.lane = "fifo"
           /\ otask[orEvent.task].priority > 0)
          => /\ otask[orEvent.task].retry_count > 0
             /\ orEvent.listed = <<>>

\* in how many of the five collections unit u is
Places(u) ==
    Occurrences(pending_queue, u) + Occurrences(priority_tasks, u)
       + (IF u \in active_tasks THEN 1 ELSE 0)
       + Occurrences(completed_tasks, u) + Occurrences(failed_tasks, u)

\* C33 (as claimed): whenever control can pass between coroutines, each
\* unit add_task has accepted is in exactly one of the FIFO channel, the
\* priority list, the active set, completed_tasks and failed_tasks, and
\* total_tasks is the sum of their sizes.
C33_UnitsConserved ==
    /\ \A u \in 1..total_tasks : Places(u) = 1
    /\ total_tasks = Len(pending_queue) + Len(priority_tasks)
                        + Cardinality(active_tasks)
                        + Len(completed_tasks) + Len(failed_tasks)

\* C36 (as claimed): when wait_completion returns before its timeout while
\* the orchestrator is running, every unit accepted by add_task is in
\* completed_tasks or in failed_tasks.
C36_CompletionMeansDone ==
    orEvent.kind = "completion"
       => \A u \in 1..total_tasks :
             Occurrences(completed_tasks, u) + Occurrences(failed_tasks, u) = 1

\* C34 (as claimed): after any sequence of add_task, start, stop and start
\* again the active set never holds more than max_concurrent (2) units,
\* and start() on a running orchestrator creates no worker.
C34_ActiveWithinMaxConcurrent ==
    /\ Cardinality(active_tasks) <= 2
    /\ orEvent.kind = "start ignored"
          => Cardinality({ w \in Workers : workers[w].pc \notin {"none", "ended"} }) <= 2

Settled(u) == Occurrences(completed_tasks, u) + Occurrences(failed_tasks, u) = 1

\* C35: when the orchestrator keeps running and every worker gets its
\* turn, every unit accepted by add_task is eventually in completed_tasks
\* or in failed_tasks, and no unit is executed more than max_retries (3)
\* times.
C35_EveryUnitSettles ==
    /\ [](\A u \in Units : otask[u].executions <= 3)
    /\ \A u \in Units : (u <= total_tasks) ~> Settled(u)

\* one unit has been given up after three executions, the other completed
C35_Witness ==
    /\ running
    /\ total_tasks = 2
    /\ failed_tasks = <<1>>
    /\ completed_tasks = <<2>>
    /\ otask[1].executions = 3
    /\ otask[2].executions = 1

\* a caller suspended in "async with self._lock"
AwaitsLock(c) == cpc[c].st \in {"got", "work"} /\ lock # "free"

\* C32: with one producer and workers that repeat get_task and
\* update_task_status(COMPLETED) on a bounded queue, the producer is never
\* waiting on the full queue while every worker is waiting for the lock.
C32_NoBackpressureDeadlock ==
    ~(\E p \in Producers :
          /\ ppc[p].st = "put"
          /\ Len(queue) = MaxSize
          /\ \A c \in Consumers : AwaitsLock(c))
====
